---------------------------- MODULE Spec2Model ----------------------------
(***************************************************************************)
(* A model of ansible-tui: the configuration pipeline (ReadConf, ReadEnvs, *)
(* ProcessEnvs, ValidateInputs), the path checks, the buffered command     *)
(* runner, the inventory validator and the HTTP listener of cmd/api.       *)
(*                                                                         *)
(* Go strings are modelled as sequences of one-character strings, so that  *)
(* the regular expressions and prefix tests of the code can be computed:   *)
(* "" is << >> and "./a" is <<".", "/", "a">>.                             *)
(* A Go error is a record of its kind and message; the kinds are "nil",    *)
(* "InputError", "ExecutionError", "PathError" (an fs.PathError of         *)
(* os.Stat, os.Lstat, os.Mkdir or os.WriteFile), "NumError"                *)
(* (strconv.Atoi), "LookPathError" (exec.LookPath), "StartError"           *)
(* (cmd.Start), "ExitError" (an exec.ExitError), "YamlError" and "Error"   *)
(* (errors.New).                                                           *)
(***************************************************************************)
EXTENDS Integers, Sequences, FiniteSets, Bags, TLC

VARIABLES
    pc,       \* position of the foreground goroutine
    arg,      \* argument of the function under test (pure-function specs)
    ret,      \* its result
    fs,       \* the filesystem: [files, dirs, ro]
    c,        \* the PlaybookConfig
    env,      \* the process environment: a function from the names set to values
    cfgFile,  \* the YAML configuration file: [kind, has, val]
    err,      \* the error returned by the last step of main
    exitCode, \* the exit code of the process, -1 while it runs
    procs,    \* the subprocesses started so far, in order
    last,     \* the last function of main that returned
    world,    \* what the child processes do: their output and exit codes
    inv,      \* validateAnsibleInventory: its child, pipes, goroutines, rc
    run,      \* RunBufferedCommand: its child, pipes, goroutine, results
    http      \* the HTTP listener: requestChannel, workers, last response

vars == <<pc, arg, ret, fs, c, env, cfgFile, err, exitCode, procs, last,
          world, inv, run, http>>

\* the variables of the two command runners and of the HTTP listener
runVars == <<world, inv, run, http>>

(***************************************************************************)
(* Strings                                                                 *)
(***************************************************************************)

\* Longest path drawn for the path checks.
MaxPathLen == 3

Lower == {"a", "b", "c", "d", "e", "f", "g", "h", "i", "j", "k", "l", "m",
          "n", "o", "p", "q", "r", "s", "t", "u", "v", "w", "x", "y", "z"}
Upper == {"A", "B", "C", "D", "E", "F", "G", "H", "I", "J", "K", "L", "M",
          "N", "O", "P", "Q", "R", "S", "T", "U", "V", "W", "X", "Y", "Z"}
Digit == {"0", "1", "2", "3", "4", "5", "6", "7", "8", "9"}

\* The character class of regExpPathName: [a-zA-Z0-9./\-_]
PathNameClass == Lower \cup Upper \cup Digit \cup {".", "/", "-", "_"}

\* regExpPathName.MatchString(path): ^[a-zA-Z0-9./\-_]+$
regExpPathName(path) ==
    /\ Len(path) > 0
    /\ \A i \in 1..Len(path) : path[i] \in PathNameClass

\* regExpDblDots.FindString(path) != "": the pattern \.\. occurs in path
regExpDblDots(path) ==
    \E i \in 1..(Len(path) - 1) : path[i] = "." /\ path[i + 1] = "."

\* regExpDotSlash.FindString(path) != "": the pattern ^\./
regExpDotSlash(path) ==
    Len(path) >= 2 /\ path[1] = "." /\ path[2] = "/"

\* strings.HasPrefix(s, prefix)
HasPrefix(s, prefix) ==
    /\ Len(s) >= Len(prefix)
    /\ SubSeq(s, 1, Len(prefix)) = prefix

\* exitCode of a process that has not exited
Running == -1

(***************************************************************************)
(* Errors: a kind and a message.                                           *)
(***************************************************************************)
E(kind, msg) == [kind |-> kind, msg |-> msg]
Nil == E("nil", "")

(***************************************************************************)
(* Filesystem.  A path names the entry the kernel resolves it to; the      *)
(* model resolves a leading "./" (the working directory) and keeps the     *)
(* rest of the path as written.  The modelled tree holds no symbolic       *)
(* links, so filepath.EvalSymlinks fails exactly when the path is missing. *)
(* files maps each regular file to its contents; ro says that nothing can  *)
(* be created or written (a read-only or full working directory).          *)
(***************************************************************************)
NoFiles == [p \in {} |-> << >>]

\* the files ps, each with empty contents
FilesOf(ps) == [p \in ps |-> << >>]

\* os.Getwd(): the working directory of the process
Cwd == <<"/", "w">>

\* the entry a path resolves to: a leading "./" and a leading Cwd + "/" are
\* the working directory
RECURSIVE Canon(_)
Canon(path) ==
    IF regExpDotSlash(path) THEN Canon(SubSeq(path, 3, Len(path)))
    ELSE IF HasPrefix(path, Cwd \o <<"/">>)
         THEN Canon(SubSeq(path, Len(Cwd) + 2, Len(path)))
    ELSE path

\* filepath.Abs(path) and filepath.Join(cwd, path): the cleaned absolute path
Abs(path) ==
    IF HasPrefix(path, <<"/">>) THEN path
    ELSE IF Canon(path) = << >> THEN Cwd
    ELSE Cwd \o <<"/">> \o Canon(path)

IsFile(f, path) == Canon(path) \in DOMAIN f.files
IsDir(f, path) == Canon(path) \in f.dirs
Exists(f, path) == IsFile(f, path) \/ IsDir(f, path)

\* filepath.EvalSymlinks(path): its error (Nil when the path resolves)
EvalSymlinks(f, path) ==
    IF Exists(f, path) THEN Nil ELSE E("PathError", "no such file or directory")

\* checkRelativePath(path)
checkRelativePath(path) == regExpDotSlash(path)

\* pathExists(path, dir): [ok, err]
pathExists(f, path, dir) ==
    IF ~Exists(f, path)
    THEN [ok |-> FALSE, err |-> E("PathError", "no such file or directory")]
    ELSE IF dir /\ ~IsDir(f, path)
    THEN [ok |-> FALSE, err |-> E("InputError", "path must be a directory")]
    ELSE IF ~dir /\ IsDir(f, path)
    THEN [ok |-> FALSE,
          err |-> E("InputError", "path must be a file, not a directory")]
    ELSE [ok |-> TRUE, err |-> Nil]

\* os.Mkdir(dirName, 0750): [fs, err]
Mkdir(f, dirName) ==
    IF dirName = << >>
    THEN [fs |-> f, err |-> E("PathError", "no such file or directory")]
    ELSE IF Exists(f, dirName)
    THEN [fs |-> f, err |-> E("PathError", "file exists")]
    ELSE IF f.ro
    THEN [fs |-> f, err |-> E("PathError", "read-only file system")]
    ELSE [fs |-> [f EXCEPT !.dirs = @ \cup {Canon(dirName)}], err |-> Nil]

\* ensureDir(dirName): [fs, err]
ensureDir(f, dirName) ==
    LET m == Mkdir(f, dirName)
    IN  IF m.err = Nil THEN m
        ELSE IF m.err.msg = "file exists"
        THEN IF ~IsDir(f, dirName)
             THEN [fs |-> f,
                   err |-> E("Error", "path exists but is not a directory")]
             ELSE [fs |-> f, err |-> Nil]
        ELSE m

\* WriteFileFromString(outputFilePath, contents): [fs, err]
WriteFileFromString(f, outputFilePath, contents) ==
    IF f.ro
    THEN [fs |-> f, err |-> E("PathError", "read-only file system")]
    ELSE IF IsDir(f, outputFilePath)
    THEN [fs |-> f, err |-> E("PathError", "is a directory")]
    ELSE LET p == Canon(outputFilePath)
         IN  [fs |-> [f EXCEPT !.files =
                         [q \in DOMAIN f.files \cup {p} |->
                             IF q = p THEN contents ELSE f.files[q]]],
              err |-> Nil]

(***************************************************************************)
(* sanitizePath (package cmd)                                              *)
(***************************************************************************)
\* sanitizePath without the search for ".."
sanitizePath_NoDblDots(f, path) ==
    IF ~regExpPathName(path) THEN E("InputError", "invalid characters in path")
    ELSE EvalSymlinks(f, path)

sanitizePath(f, path) ==
    IF ~regExpPathName(path) THEN E("InputError", "invalid characters in path")
    ELSE IF regExpDblDots(path)
         THEN E("InputError", "relative back traversal not allowed in paths")
    ELSE EvalSymlinks(f, path)

(***************************************************************************)
(* strconv.Atoi on a string of characters: [val, err]                      *)
(***************************************************************************)
DigitSeq == <<"0", "1", "2", "3", "4", "5", "6", "7", "8", "9">>
DigitVal(ch) == (CHOOSE i \in 1..Len(DigitSeq) : DigitSeq[i] = ch) - 1

RECURSIVE DecVal(_)
DecVal(d) ==
    IF d = << >> THEN 0
    ELSE DecVal(SubSeq(d, 1, Len(d) - 1)) * Len(DigitSeq) + DigitVal(d[Len(d)])

Atoi(s) ==
    LET signed == Len(s) > 0 /\ s[1] \in {"+", "-"}
        d      == IF signed THEN Tail(s) ELSE s
        ok     == Len(d) > 0 /\ \A i \in 1..Len(d) : d[i] \in Digit
    IN  IF ~ok THEN [val |-> 0, err |-> E("NumError", "invalid syntax")]
        ELSE [val |-> IF signed /\ s[1] = "-" THEN 0 - DecVal(d) ELSE DecVal(d),
              err |-> Nil]

(***************************************************************************)
(* The process environment: a function from the names that are set to      *)
(* their values.                                                           *)
(***************************************************************************)
NoEnv == [n \in {} |-> << >>]

\* os.Getenv(name)
Getenv(e, name) == IF name \in DOMAIN e THEN e[name] ELSE << >>

\* os.Setenv that writes nothing
Setenv_Nothing(e, name, value) == e

\* os.Setenv(name, value)
Setenv(e, name, value) ==
    [n \in DOMAIN e \cup {name} |-> IF n = name THEN value ELSE e[n]]

\* UnsetAllBut that removes nothing
UnsetAllBut_Nothing(e, keep) == e

\* os.Unsetenv of every name outside keep
UnsetAllBut(e, keep) == [n \in DOMAIN e \cap keep |-> e[n]]

(***************************************************************************)
(* PlaybookConfig                                                          *)
(***************************************************************************)
DefaultPlaybookTimeout == 86400
DefaultVerboseLevel == 1

\* the nil map of environment-variables.set
NilMap == [isNil |-> TRUE, m |-> NoEnv]

NewPlaybookConfig ==
    [ Playbook          |-> << >>,
      VerboseLevel      |-> DefaultVerboseLevel,
      SshPrivateKeyFile |-> << >>,
      RemoteUser        |-> << >>,
      InventoryFile     |-> << >>,
      LimitHost         |-> << >>,
      ExtraVarsFile     |-> << >>,
      AnsibleTags       |-> << >>,
      AnsibleSkipTags   |-> << >>,
      ExtraArgs         |-> << >>,
      WindowsGroup      |-> << >>,
      ExecutionType     |-> << >>,
      Image             |-> << >>,
      VirtualEnvPath    |-> << >>,
      PlaybookTimeout   |-> DefaultPlaybookTimeout,
      Pass              |-> << >>,
      Set               |-> NilMap,
      InventoryCount    |-> 0,
      ExitCode          |-> 0,
      TempDirPath       |-> << >> ]

\* defaultTempPath of package main: "./.ansible-tui"
defaultTempPath ==
    <<".", "/", ".", "a", "n", "s", "i", "b", "l", "e", "-", "t", "u", "i">>

\* "./hosts-INVENTORY"
HostsInventoryPath ==
    <<".", "/", "h", "o", "s", "t", "s", "-",
      "I", "N", "V", "E", "N", "T", "O", "R", "Y">>

\* "PLAYBOOK-extravars"
ExtraVarsContentsPath ==
    <<"P", "L", "A", "Y", "B", "O", "O", "K", "-",
      "e", "x", "t", "r", "a", "v", "a", "r", "s">>

(***************************************************************************)
(* ReadConf: the configuration file is [kind, has, val]; kind is "none"    *)
(* (no file named), "missing" (os.ReadFile fails), "badyaml" (Unmarshal    *)
(* fails) or "ok"; has is the set of fields the file sets and val their    *)
(* values.                                                                 *)
(***************************************************************************)
NoConfigFile == [kind |-> "none", has |-> {}, val |-> NewPlaybookConfig]

ReadConf(c0, file) ==
    IF file.kind = "none" THEN [c |-> c0, err |-> Nil]
    ELSE IF file.kind = "missing"
    THEN [c |-> c0, err |-> E("PathError", "no such file or directory")]
    ELSE IF file.kind = "badyaml"
    THEN [c |-> c0, err |-> E("YamlError", "cannot unmarshal")]
    ELSE [c |-> [k \in DOMAIN c0 |->
                    IF k \in file.has THEN file.val[k] ELSE c0[k]],
          err |-> Nil]

(***************************************************************************)
(* ReadEnvs (package cmd): [c, fs, err]                                    *)
(***************************************************************************)
\* the value of the variable when it is non-empty, else the old value
Override(e, name, old) ==
    IF Getenv(e, name) # << >> THEN Getenv(e, name) ELSE old

\* a count that sees no variable
IsSet_Never(e, name) == 0

\* 1 when the variable is non-empty, else 0
IsSet(e, name) == IF Getenv(e, name) # << >> THEN 1 ELSE 0

\* PLAYBOOK .. TMP_DIR_PATH
ReadEnvsHead(c0, e) ==
    LET v == Atoi(Getenv(e, "VERBOSE_LEVEL"))
    IN  [c0 EXCEPT
           !.Playbook = Override(e, "PLAYBOOK", @),
           !.VerboseLevel =
               IF Getenv(e, "VERBOSE_LEVEL") # << >> /\ v.err = Nil
               THEN v.val ELSE @,
           !.SshPrivateKeyFile = Override(e, "SSH_PRIVATE_KEY_FILE", @),
           !.RemoteUser = Override(e, "ANSIBLE_REMOTE_USER", @),
           !.TempDirPath = Override(e, "TMP_DIR_PATH", @)]

\* "create temp-dir if it does not exist": [fs, err]
ReadEnvsTempDir(f, tempDirPath) ==
    LET p == IF checkRelativePath(tempDirPath) THEN Abs(tempDirPath)
             ELSE tempDirPath
    IN  IF ~pathExists(f, p, TRUE).ok THEN ensureDir(f, p)
        ELSE [fs |-> f, err |-> Nil]

\* ReadEnvsTail without EXTRA_ARGS
ReadEnvsTail_KeepExtraArgs(c0, e, f) ==
    LET t  == Atoi(Getenv(e, "ANSIBLE_PLAYBOOK_TIMEOUT"))
        c1 == IF Getenv(e, "ANSIBLE_PLAYBOOK_TIMEOUT") # << >>
              THEN [c0 EXCEPT !.PlaybookTimeout = t.val] ELSE c0
    IN  IF Getenv(e, "ANSIBLE_PLAYBOOK_TIMEOUT") # << >> /\ t.err # Nil
        THEN [c |-> c1, fs |-> f, err |-> t.err]
        ELSE [c |-> [c1 EXCEPT
                       !.AnsibleTags = Override(e, "ANSIBLE_TAGS", @),
                       !.AnsibleSkipTags = Override(e, "ANSIBLE_SKIP_TAGS", @),
                       !.WindowsGroup = Override(e, "WINDOWS_GROUP", @),
                       !.VirtualEnvPath = Override(e, "VIRTUAL_ENV", @),
                       !.Image = Override(e, "CONTAINER_IMAGE", @)],
              fs |-> f, err |-> Nil]

\* ANSIBLE_PLAYBOOK_TIMEOUT .. CONTAINER_IMAGE
ReadEnvsTail(c0, e, f) ==
    LET t  == Atoi(Getenv(e, "ANSIBLE_PLAYBOOK_TIMEOUT"))
        c1 == IF Getenv(e, "ANSIBLE_PLAYBOOK_TIMEOUT") # << >>
              THEN [c0 EXCEPT !.PlaybookTimeout = t.val] ELSE c0
    IN  IF Getenv(e, "ANSIBLE_PLAYBOOK_TIMEOUT") # << >> /\ t.err # Nil
        THEN [c |-> c1, fs |-> f, err |-> t.err]
        ELSE [c |-> [c1 EXCEPT
                       !.AnsibleTags = Override(e, "ANSIBLE_TAGS", @),
                       !.AnsibleSkipTags = Override(e, "ANSIBLE_SKIP_TAGS", @),
                       !.ExtraArgs = Override(e, "EXTRA_ARGS", @),
                       !.WindowsGroup = Override(e, "WINDOWS_GROUP", @),
                       !.VirtualEnvPath = Override(e, "VIRTUAL_ENV", @),
                       !.Image = Override(e, "CONTAINER_IMAGE", @)],
              fs |-> f, err |-> Nil]

\* LIMIT_HOST .. EXTRA_VARS_CONTENTS and the extra-vars count
ReadEnvsExtraVars(c0, e, f) ==
    LET contents == Getenv(e, "EXTRA_VARS_CONTENTS")
        c1 == [c0 EXCEPT !.LimitHost = Override(e, "LIMIT_HOST", @),
                         !.ExtraVarsFile = Override(e, "EXTRA_VARS_FILE", @)]
        c2 == IF contents # << >>
              THEN [c1 EXCEPT !.ExtraVarsFile = ExtraVarsContentsPath] ELSE c1
        w  == IF contents # << >>
              THEN WriteFileFromString(f, ExtraVarsContentsPath, contents)
              ELSE [fs |-> f, err |-> Nil]
        varInputCount == IsSet(e, "EXTRA_VARS_FILE")
                         + IsSet(e, "EXTRA_VARS_CONTENTS")
    IN  IF w.err # Nil THEN [c |-> c2, fs |-> w.fs, err |-> w.err]
        ELSE IF varInputCount > 1
        THEN [c |-> c2, fs |-> w.fs,
              err |-> E("InputError",
                        "only one extra-vars environment variable is allowed")]
        ELSE ReadEnvsTail(c2, e, w.fs)

\* INVENTORY_FILE, INVENTORY_CONTENTS, INVENTORY_URL and the inventory count
ReadEnvsInventory(c0, e, f) ==
    LET contents == Getenv(e, "INVENTORY_CONTENTS")
        c1 == [c0 EXCEPT !.InventoryFile = Override(e, "INVENTORY_FILE", @)]
        c2 == IF contents # << >>
              THEN [c1 EXCEPT !.InventoryFile = HostsInventoryPath] ELSE c1
        w  == IF contents # << >>
              THEN WriteFileFromString(f, HostsInventoryPath, contents)
              ELSE [fs |-> f, err |-> Nil]
        count2 == IsSet(e, "INVENTORY_FILE") + IsSet(e, "INVENTORY_CONTENTS")
        c3 == IF Getenv(e, "INVENTORY_URL") # << >>
              THEN [c2 EXCEPT !.InventoryFile = HostsInventoryPath] ELSE c2
        count3 == count2 + IsSet(e, "INVENTORY_URL")
        tooMany == E("InputError",
                     "only one inventory environment variable is allowed")
    IN  IF w.err # Nil THEN [c |-> c2, fs |-> w.fs, err |-> w.err]
        ELSE IF count2 > 1 THEN [c |-> c2, fs |-> w.fs, err |-> tooMany]
        ELSE IF count3 > 1 THEN [c |-> c3, fs |-> w.fs, err |-> tooMany]
        ELSE ReadEnvsExtraVars(c3, e, w.fs)

ReadEnvs(c0, e, f) ==
    LET c1 == ReadEnvsHead(c0, e)
        d  == ReadEnvsTempDir(f, c1.TempDirPath)
    IN  IF d.err # Nil THEN [c |-> c1, fs |-> d.fs, err |-> d.err]
        ELSE ReadEnvsInventory(c1, e, d.fs)

(***************************************************************************)
(* ProcessEnvs (package cmd): [c, env, panic].  Pass is a sequence of       *)
(* variable names and Set a map [isNil, m]; writing to the nil map panics. *)
(***************************************************************************)
\* the variables that are never unset
autoPassEnvs == {"PATH", "HOME"}

\* ProcessEnvs that writes nothing to the configuration
ProcessEnvs_ConfigUntouched(c0, e) ==
    LET keys == DOMAIN c0.Set.m \cup
                {c0.Pass[i] : i \in {j \in 1..Len(c0.Pass) :
                                        Getenv(e, c0.Pass[j]) # << >>}}
        e1   == [n \in DOMAIN e \cup DOMAIN c0.Set.m |->
                    IF n \in DOMAIN c0.Set.m THEN c0.Set.m[n] ELSE e[n]]
    IN  [c |-> c0, env |-> UnsetAllBut(e1, keys \cup autoPassEnvs),
         panic |-> FALSE]

ProcessEnvs(c0, e) ==
    LET pass    == c0.Pass
        set     == c0.Set
        cached  == {pass[i] : i \in {j \in 1..Len(pass) :
                                        Getenv(e, pass[j]) # << >>}}
        envPass == cached \ DOMAIN set.m
        e1      == [n \in DOMAIN e \cup DOMAIN set.m |->
                       IF n \in DOMAIN set.m THEN set.m[n] ELSE e[n]]
        keys    == DOMAIN set.m \cup envPass
    IN  IF envPass # {} /\ set.isNil
        THEN [c |-> c0, env |-> e1, panic |-> TRUE]
        ELSE [c |-> [c0 EXCEPT
                       !.Set = [isNil |-> set.isNil,
                                m |-> [n \in keys |->
                                         IF n \in envPass THEN Getenv(e, n)
                                         ELSE set.m[n]]],
                       !.Pass = << >>],
              env |-> UnsetAllBut(e1, keys \cup autoPassEnvs),
              panic |-> FALSE]

(***************************************************************************)
(* ValidateInputs (package cmd): [c, err]                                  *)
(***************************************************************************)
\* strings.Replace(path, "~", home, 1) for a path that starts with "~"
ExpandHome(e, path) ==
    IF HasPrefix(path, <<"~">>) THEN Getenv(e, "HOME") \o Tail(path) ELSE path

\* filepath.Join(dir, "bin", name)
JoinBin(dir, name) ==
    (IF Len(dir) > 1 /\ dir[Len(dir)] = "/" THEN SubSeq(dir, 1, Len(dir) - 1)
     ELSE dir) \o <<"/", "b", "i", "n", "/">> \o name

AnsiblePlaybookName ==
    <<"a", "n", "s", "i", "b", "l", "e", "-",
      "p", "l", "a", "y", "b", "o", "o", "k">>

AnsibleInventoryName ==
    <<"a", "n", "s", "i", "b", "l", "e", "-",
      "i", "n", "v", "e", "n", "t", "o", "r", "y">>

\* sanitizePath, checkRelativePath and pathExists of a playbook, inventory
\* or extra-vars file: the error returned, Nil when all three pass
CheckInputFile(f, path, what) ==
    IF sanitizePath(f, path) # Nil THEN sanitizePath(f, path)
    ELSE IF ~checkRelativePath(path)
    THEN E("InputError", what)
    ELSE pathExists(f, path, FALSE).err

PlaybookNotRelative ==
    "playbook must have relative path to current directory"
InventoryNotRelative ==
    "inventory-file must have relative path to current directory"
ExtraVarsNotRelative ==
    "extra-vars file must have relative path to current directory"

\* the playbook check alone
CheckInputFiles_NoInventory(conf, f) ==
    IF conf.Playbook = << >> THEN E("InputError", "playbook is required")
    ELSE CheckInputFile(f, conf.Playbook, PlaybookNotRelative)

\* the playbook, inventory and extra-vars checks: the first error, or Nil
CheckInputFiles(conf, f) ==
    IF conf.Playbook = << >> THEN E("InputError", "playbook is required")
    ELSE IF CheckInputFile(f, conf.Playbook, PlaybookNotRelative) # Nil
    THEN CheckInputFile(f, conf.Playbook, PlaybookNotRelative)
    ELSE IF conf.InventoryFile = << >>
    THEN E("InputError", "inventory parameter is required")
    ELSE IF CheckInputFile(f, conf.InventoryFile, InventoryNotRelative) # Nil
    THEN CheckInputFile(f, conf.InventoryFile, InventoryNotRelative)
    ELSE IF conf.ExtraVarsFile # << >>
    THEN CheckInputFile(f, conf.ExtraVarsFile, ExtraVarsNotRelative)
    ELSE Nil

\* "if execTypeCount > 1": the virtual environment is unset
ResolveExecutionType(conf) ==
    IF conf.VirtualEnvPath # << >> /\ conf.Image # << >>
    THEN [conf EXCEPT !.VirtualEnvPath = << >>]
    ELSE conf

\* the checks of the virtual environment: [c, err]
CheckVirtualEnv(conf, e, f) ==
    IF conf.VirtualEnvPath = << >> THEN [c |-> conf, err |-> Nil]
    ELSE
    LET v  == ExpandHome(e, conf.VirtualEnvPath)
        c1 == [conf EXCEPT !.VirtualEnvPath = v]
    IN  IF sanitizePath(f, v) # Nil THEN [c |-> c1, err |-> sanitizePath(f, v)]
        ELSE IF ~pathExists(f, Abs(v), TRUE).ok
        THEN [c |-> c1, err |-> pathExists(f, Abs(v), TRUE).err]
        ELSE IF ~Exists(f, JoinBin(v, AnsiblePlaybookName))
                \/ ~Exists(f, JoinBin(v, AnsibleInventoryName))
        THEN [c |-> c1, err |-> E("PathError", "no such file or directory")]
        ELSE [c |-> c1, err |-> Nil]

\* the checks of the SSH private key: [c, err]
CheckSshPrivateKey(conf, e, f) ==
    IF conf.SshPrivateKeyFile = << >> THEN [c |-> conf, err |-> Nil]
    ELSE
    LET k  == ExpandHome(e, conf.SshPrivateKeyFile)
        c1 == [conf EXCEPT !.SshPrivateKeyFile = k]
    IN  IF sanitizePath(f, k) # Nil THEN [c |-> c1, err |-> sanitizePath(f, k)]
        ELSE IF ~pathExists(f, Abs(k), FALSE).ok
        THEN [c |-> c1, err |-> pathExists(f, Abs(k), FALSE).err]
        ELSE [c |-> [c1 EXCEPT !.SshPrivateKeyFile = Abs(k)], err |-> Nil]

\* ValidateInputs that refuses a verbose level outside 0..7
ValidateInputs_RejectVerbose(c0, e, f) ==
    LET v == CheckVirtualEnv(ResolveExecutionType(c0), e, f)
    IN  IF c0.VerboseLevel < 0 \/ c0.VerboseLevel > 7
        THEN [c |-> c0, err |-> E("InputError", "verbose level out of range")]
        ELSE IF CheckInputFiles(c0, f) # Nil
        THEN [c |-> c0, err |-> CheckInputFiles(c0, f)]
        ELSE IF v.err # Nil THEN v
        ELSE CheckSshPrivateKey(v.c, e, f)

ValidateInputs(c0, e, f) ==
    LET c1 == IF c0.VerboseLevel < 0 \/ c0.VerboseLevel > 7
              THEN [c0 EXCEPT !.VerboseLevel = 1] ELSE c0
        v  == CheckVirtualEnv(ResolveExecutionType(c1), e, f)
    IN  IF CheckInputFiles(c1, f) # Nil
        THEN [c |-> c1, err |-> CheckInputFiles(c1, f)]
        ELSE IF v.err # Nil THEN v
        ELSE CheckSshPrivateKey(v.c, e, f)

(***************************************************************************)
(* Child processes.  A child runs a script, a sequence of [fd, line]: it   *)
(* writes each line to the pipe of its stdout ("out") or stderr ("err")    *)
(* and then exits with its exit code.  A pipe holds at most PipeCap lines. *)
(***************************************************************************)
\* Lines a pipe holds before the writer blocks.
PipeCap == 1

\* a child that has not been started
NoChild == [state |-> "none", ip |-> 1, out |-> << >>, errp |-> << >>,
            closed |-> FALSE]

\* a goroutine reading lines: not started, with nothing buffered
NoReader == [pc |-> "none", buf |-> << >>]

NoWorld == [invScript |-> << >>, invExit |-> 0, invStartFails |-> FALSE,
            pbScript |-> << >>, pbExit |-> 0, pbStartFails |-> FALSE]

NoInv == [child |-> NoChild, errR |-> NoReader, outR |-> NoReader,
          rc |-> 0, ret |-> Nil, hosts |-> {}]

NoRun == [child |-> NoChild, reader |-> NoReader, from |-> "out",
          cmd |-> << >>, args |-> << >>, timeout |-> 0, capture |-> FALSE,
          outputLines |-> << >>, rc |-> 0, err |-> Nil]

\* const maxPlaybookConcurrent: the capacity of requestChannel and the
\* number of workers
maxPlaybookConcurrent == 5

\* the response of handleAnsible to a request: the status written (0 when
\* none was), whether Enqueue was called, the requests pending at the call,
\* the error of Enqueue and whether the handler goroutine panicked
NoResp == [id |-> 0, method |-> "", body |-> "", status |-> 0,
           called |-> FALSE, pending |-> 0, err |-> Nil, panic |-> FALSE]

\* PlaybookConfig{}, the value json.Unmarshal fills in
ZeroPlaybookConfig ==
    [NewPlaybookConfig EXCEPT !.VerboseLevel = 0, !.PlaybookTimeout = 0]

\* a worker at "for c := range requestChannel": the request it holds, the
\* error validateInputs returned for it, whether it started a subprocess.
\* The workers differ in nothing but the number they log, so the listener
\* holds the bag of their states.
NoWorker == [pc |-> "range", started |-> FALSE,
             payload |-> ZeroPlaybookConfig, verr |-> Nil]

\* the subprocess a worker started last: the payload of its request, the
\* error of validateInputs for it, the environment the child inherited
NoHttpChild == [payload |-> ZeroPlaybookConfig, verr |-> Nil, env |-> NoEnv]

\* the listener before mainListener: requestChannel as [closed, queue], the
\* workers at "for c := range requestChannel" with no subprocess started,
\* no request received; envsProcessed counts the calls of ProcessEnvs
\* (processInputs in cmd/api) that the process has made
NoHttp == [closed |-> FALSE, queue |-> << >>,
           workers |-> [w \in {NoWorker} |-> maxPlaybookConcurrent],
           count |-> 0, resp |-> NoResp, envsProcessed |-> 0,
           child |-> NoHttpChild]

\* strings.Split(s, sep) for a one-character separator
RECURSIVE Split(_, _)
Split(s, sep) ==
    IF \A i \in 1..Len(s) : s[i] # sep THEN <<s>>
    ELSE LET k == CHOOSE i \in 1..Len(s) :
                     s[i] = sep /\ \A j \in 1..(i - 1) : s[j] # sep
         IN  <<SubSeq(s, 1, k - 1)>> \o Split(SubSeq(s, k + 1, Len(s)), sep)

\* strings.Fields(s): the words of s between spaces
Fields(s) == SelectSeq(Split(s, " "), LAMBDA w : w # << >>)

\* exec.LookPath(file): the first directory of PATH that holds file decides;
\* a directory that is not absolute gives exec.ErrDot
LookPath(e, f, file) ==
    LET dirs  == Split(Getenv(e, "PATH"), ":")
        at(i) == (IF dirs[i] = << >> THEN <<".">> ELSE dirs[i])
                     \o <<"/">> \o file
        found == {i \in 1..Len(dirs) : IsFile(f, at(i))}
    IN  IF found = {}
        THEN E("LookPathError", "executable file not found in $PATH")
        ELSE LET i == CHOOSE j \in found : \A k \in found : j <= k
             IN  IF HasPrefix(dirs[i], <<"/">>) THEN Nil
                 ELSE E("LookPathError",
                        "cannot run executable found relative to current directory")

\* os.Setenv("PATH", c.VirtualEnvPath+"/bin:"+os.Getenv("PATH"))
PrependVenv(e, venv) ==
    IF venv = << >> THEN e
    ELSE Setenv(e, "PATH",
                venv \o <<"/", "b", "i", "n", ":">> \o Getenv(e, "PATH"))

\* the child can write the next line of its script: the pipe has room
CanWrite(ch, script) ==
    /\ ch.state = "running"
    /\ ch.ip <= Len(script)
    /\ Len(IF script[ch.ip].fd = "out" THEN ch.out ELSE ch.errp) < PipeCap

ChildWrite(ch, script) ==
    IF script[ch.ip].fd = "out"
    THEN [ch EXCEPT !.ip = @ + 1, !.out = Append(@, script[ch.ip].line)]
    ELSE [ch EXCEPT !.ip = @ + 1, !.errp = Append(@, script[ch.ip].line)]

\* the child has written all its output and exits
CanExit(ch, script) == ch.state = "running" /\ ch.ip > Len(script)

\* readLine(reader) on a bufio.Reader over a pipe: [kind, line, buf, pipe].
\* Buffered lines are returned first; a read of the pipe takes all it holds;
\* the pipe gives os.ErrClosed once Wait has closed it, io.EOF once it is
\* empty and the child is gone, and blocks otherwise.
readLine(reader, pipe, ch) ==
    IF reader.buf # << >>
    THEN [kind |-> "line", line |-> Head(reader.buf),
          buf |-> Tail(reader.buf), pipe |-> pipe]
    ELSE IF ch.closed
    THEN [kind |-> "closed", line |-> << >>, buf |-> << >>, pipe |-> pipe]
    ELSE IF pipe # << >>
    THEN [kind |-> "line", line |-> Head(pipe),
          buf |-> Tail(pipe), pipe |-> << >>]
    ELSE IF ch.state \in {"exited", "killed"}
    THEN [kind |-> "eof", line |-> << >>, buf |-> << >>, pipe |-> pipe]
    ELSE [kind |-> "block", line |-> << >>, buf |-> << >>, pipe |-> pipe]

(***************************************************************************)
(* validateAnsibleInventory (package cmd)                                  *)
(***************************************************************************)
\* s contains pat
Contains(s, pat) ==
    \E i \in 1..(Len(s) - Len(pat) + 1) : SubSeq(s, i, i + Len(pat) - 1) = pat

UnableToParse ==
    <<":", " ", "U", "n", "a", "b", "l", "e", " ", "t", "o", " ",
      "p", "a", "r", "s", "e">>

\* regExpParseError.FindString(line) != "": the pattern ": Unable to parse"
regExpParseError(line) == Contains(line, UnableToParse)

\* the class [\w\._-]
NameClass == Lower \cup Upper \cup Digit \cup {"_", ".", "-"}

\* regExpInvGroup.FindString(line) != "": the pattern \@([\w\._-]+)\:$
regExpInvGroup(line) ==
    \E i \in 1..(Len(line) - 2) :
        /\ line[i] = "@"
        /\ line[Len(line)] = ":"
        /\ \A j \in (i + 1)..(Len(line) - 1) : line[j] \in NameClass

\* regExpInvHost that keeps the indentation in front of the match
regExpInvHost_WithPrefix(line) ==
    IF \E i \in 1..(Len(line) - 3) :
          /\ SubSeq(line, i, i + 2) = <<"|", "-", "-">>
          /\ \A j \in (i + 3)..Len(line) : line[j] \in NameClass
    THEN line ELSE << >>

\* regExpInvHost.FindString(line): the match of \|--([\w\._-]+)$, or ""
regExpInvHost(line) ==
    LET starts == {i \in 1..(Len(line) - 3) :
                      /\ SubSeq(line, i, i + 2) = <<"|", "-", "-">>
                      /\ \A j \in (i + 3)..Len(line) : line[j] \in NameClass}
    IN  IF starts = {} THEN << >>
        ELSE SubSeq(line, CHOOSE i \in starts : \A k \in starts : i <= k,
                    Len(line))

GraphArg == <<"-", "-", "g", "r", "a", "p", "h">>
InventoryArg == <<"-", "i">>

\* LookPath, the pipes, cmd.Start and the two go statements
InvStart ==
    /\ pc = "invStart"
    /\ LET e1 == PrependVenv(env, c.VirtualEnvPath)
           lp == LookPath(e1, fs, AnsibleInventoryName)
       IN  /\ env' = e1
           /\ IF lp # Nil
              THEN /\ inv' = [NoInv EXCEPT !.ret = lp]
                   /\ pc' = "invReturned"
                   /\ procs' = procs
              ELSE IF world.invStartFails
              THEN /\ inv' = [NoInv EXCEPT
                                !.ret = E("StartError", "fork/exec failed")]
                   /\ pc' = "invReturned"
                   /\ procs' = procs
              ELSE /\ inv' = [NoInv EXCEPT !.child.state = "running",
                                           !.errR.pc = "run",
                                           !.outR.pc = "run"]
                   /\ pc' = "invWait"
                   /\ procs' = Append(procs,
                         [cmd |-> AnsibleInventoryName,
                          args |-> <<InventoryArg, c.InventoryFile, GraphArg>>])
    /\ UNCHANGED <<arg, ret, fs, c, cfgFile, err, exitCode, last, world, run, http>>

\* ansible-inventory writes a line
InvChildWrite ==
    /\ exitCode = Running
    /\ CanWrite(inv.child, world.invScript)
    /\ inv' = [inv EXCEPT !.child = ChildWrite(@, world.invScript)]
    /\ UNCHANGED <<pc, arg, ret, fs, c, env, cfgFile, err, exitCode, procs,
                   last, world, run, http>>

\* ansible-inventory exits
InvChildExit ==
    /\ exitCode = Running
    /\ CanExit(inv.child, world.invScript)
    /\ inv' = [inv EXCEPT !.child.state = "exited"]
    /\ UNCHANGED <<pc, arg, ret, fs, c, env, cfgFile, err, exitCode, procs,
                   last, world, run, http>>

\* log.Fatal in a goroutine: the process exits with status 1
Fatal ==
    /\ pc' = "exit"
    /\ exitCode' = 1
    /\ last' = "log.Fatal"

\* one turn of the loop of the goroutine that reads stderr
InvStderrRead ==
    /\ exitCode = Running
    /\ inv.errR.pc = "run"
    /\ LET r == readLine(inv.errR, inv.child.errp, inv.child)
       IN  /\ r.kind # "block"
           /\ IF r.kind = "closed"
              THEN /\ Fatal
                   /\ inv' = inv
              ELSE /\ inv' = [inv EXCEPT
                                !.child.errp = r.pipe,
                                !.errR.buf = r.buf,
                                !.errR.pc = IF r.kind = "eof" THEN "done"
                                            ELSE "run",
                                !.rc = IF regExpParseError(r.line) THEN 1
                                       ELSE @]
                   /\ UNCHANGED <<pc, exitCode, last>>
    /\ UNCHANGED <<arg, ret, fs, c, env, cfgFile, err, procs, world, run, http>>

\* one turn of the loop of the goroutine that reads stdout; at EOF it
\* stores the number of hosts
InvStdoutRead ==
    /\ exitCode = Running
    /\ inv.outR.pc = "run"
    /\ LET r == readLine(inv.outR, inv.child.out, inv.child)
           group == regExpInvGroup(r.line)
           hosts == IF ~group /\ regExpInvHost(r.line) # << >>
                    THEN inv.hosts \cup {regExpInvHost(r.line)}
                    ELSE inv.hosts
       IN  /\ r.kind # "block"
           /\ IF r.kind = "closed"
              THEN /\ Fatal
                   /\ inv' = inv
                   /\ c' = c
              ELSE /\ inv' = [inv EXCEPT
                                !.child.out = r.pipe,
                                !.outR.buf = r.buf,
                                !.outR.pc = IF r.kind = "eof" /\ ~group
                                            THEN "done" ELSE "run",
                                !.hosts = hosts]
                   /\ c' = IF r.kind = "eof" /\ ~group
                           THEN [c EXCEPT !.InventoryCount = Cardinality(hosts)]
                           ELSE c
                   /\ UNCHANGED <<pc, exitCode, last>>
    /\ UNCHANGED <<arg, ret, fs, env, cfgFile, err, procs, world, run, http>>

\* cmd.Wait() returns once the child has exited: it closes the pipes and
\* the foreground stores a non-zero exit code in rc
InvWait ==
    /\ pc = "invWait"
    /\ inv.child.state = "exited"
    /\ inv' = [inv EXCEPT !.child.closed = TRUE,
                          !.rc = IF world.invExit # 0 THEN world.invExit ELSE @]
    /\ pc' = "invCheck"
    /\ UNCHANGED <<arg, ret, fs, c, env, cfgFile, err, exitCode, procs, last,
                   world, run, http>>

\* "if rc != 0": the foreground reads rc and returns
InvReturn ==
    /\ pc = "invCheck"
    /\ inv' = [inv EXCEPT
                 !.ret = IF inv.rc # 0
                         THEN E("InputError", "inventory is not valid")
                         ELSE Nil]
    /\ pc' = "invReturned"
    /\ UNCHANGED <<arg, ret, fs, c, env, cfgFile, err, exitCode, procs, last,
                   world, run, http>>

(***************************************************************************)
(* RunBufferedCommand (package cmd).  The caller has stored the command,   *)
(* its arguments, the timeout and captureOutput in run.                    *)
(***************************************************************************)
\* WaitResult that reports the exit code of a killed child as that of a
\* child that ended by itself
WaitResult_NoSignal(state, exit) ==
    IF exit # 0
    THEN [rc |-> exit, err |-> E("ExitError", "exit status")]
    ELSE [rc |-> 0, err |-> Nil]

\* the results of cmd.Wait for a child that exited or was killed by the
\* timeout of the context: [rc, err]
WaitResult(state, exit) ==
    IF state = "killed"
    THEN [rc |-> -1, err |-> E("ExitError", "signal: killed")]
    ELSE IF exit # 0
    THEN [rc |-> exit, err |-> E("ExitError", "exit status")]
    ELSE [rc |-> 0, err |-> Nil]

\* the go statement of the reader and cmd.Start()
RbcStart ==
    /\ pc = "rbcStart"
    /\ LET lp == LookPath(env, fs, run.cmd)
       IN  IF lp # Nil \/ world.pbStartFails
           THEN /\ run' = [run EXCEPT
                             !.reader.pc = "run",
                             !.child.closed = TRUE,
                             !.rc = 1,
                             !.err = IF lp # Nil THEN lp
                                     ELSE E("StartError", "fork/exec failed")]
                /\ pc' = "rbcReturned"
                /\ procs' = procs
           ELSE /\ run' = [run EXCEPT !.reader.pc = "run",
                                      !.child.state = "running"]
                /\ pc' = "rbcWait"
                /\ procs' = Append(procs, [cmd |-> run.cmd, args |-> run.args])
    /\ UNCHANGED <<arg, ret, fs, c, env, cfgFile, err, exitCode, last, world,
                   inv, http>>

\* the command writes a line
RbcChildWrite ==
    /\ exitCode = Running
    /\ CanWrite(run.child, world.pbScript)
    /\ run' = [run EXCEPT !.child = ChildWrite(@, world.pbScript)]
    /\ UNCHANGED <<pc, arg, ret, fs, c, env, cfgFile, err, exitCode, procs,
                   last, world, inv, http>>

\* the command exits
RbcChildExit ==
    /\ exitCode = Running
    /\ CanExit(run.child, world.pbScript)
    /\ run' = [run EXCEPT !.child.state = "exited"]
    /\ UNCHANGED <<pc, arg, ret, fs, c, env, cfgFile, err, exitCode, procs,
                   last, world, inv, http>>

\* the timeout of the context expires and the command is killed
RbcTimeout ==
    /\ exitCode = Running
    /\ run.timeout > 0
    /\ run.child.state = "running"
    /\ run' = [run EXCEPT !.child.state = "killed"]
    /\ UNCHANGED <<pc, arg, ret, fs, c, env, cfgFile, err, exitCode, procs,
                   last, world, inv, http>>

\* one turn of the loop of the reader goroutine over
\* io.MultiReader(stdout, stderr)
RbcRead ==
    /\ exitCode = Running
    /\ run.reader.pc = "run"
    /\ LET pipe == IF run.from = "out" THEN run.child.out ELSE run.child.errp
           r    == readLine(run.reader, pipe, run.child)
           more == r.kind = "eof" /\ run.from = "out"
           r1   == [run EXCEPT !.reader.buf = r.buf,
                               !.from = IF more THEN "err" ELSE @,
                               !.reader.pc = IF r.kind = "line" \/ more
                                             THEN "run" ELSE "done",
                               !.outputLines =
                                   IF run.capture /\ ~more /\ r.kind # "closed"
                                   THEN Append(@, r.line) ELSE @]
       IN  /\ r.kind # "block"
           /\ run' = IF run.from = "out"
                     THEN [r1 EXCEPT !.child.out = r.pipe]
                     ELSE [r1 EXCEPT !.child.errp = r.pipe]
    /\ UNCHANGED <<pc, arg, ret, fs, c, env, cfgFile, err, exitCode, procs,
                   last, world, inv, http>>

\* cmd.Wait() returns once the command is gone: it closes the pipes;
\* "return rc, &outputLines, err"
RbcWait ==
    /\ pc = "rbcWait"
    /\ run.child.state \in {"exited", "killed"}
    /\ LET w == WaitResult(run.child.state, world.pbExit)
       IN  run' = [run EXCEPT !.child.closed = TRUE, !.rc = w.rc, !.err = w.err]
    /\ pc' = "rbcReturned"
    /\ UNCHANGED <<arg, ret, fs, c, env, cfgFile, err, exitCode, procs, last,
                   world, inv, http>>

(***************************************************************************)
(* executeCommandInContainer and RunAnsiblePlaybook (package cmd)          *)
(***************************************************************************)
\* "/bin/ansible-tui"
ContainerEntry ==
    <<"/", "b", "i", "n", "/", "a", "n", "s", "i", "b", "l", "e", "-", "t",
      "u", "i">>

\* "podman"
Podman ==
    <<"p", "o", "d", "m", "a", "n">>

\* "docker"
Docker ==
    <<"d", "o", "c", "k", "e", "r">>

\* "/container-config.yml"
ContainerConfigName ==
    <<"/", "c", "o", "n", "t", "a", "i", "n", "e", "r", "-", "c", "o", "n",
      "f", "i", "g", ".", "y", "m", "l">>

\* "PB_CONFIG_FILE=/app/"
ConfigEnvPrefix ==
    <<"P", "B", "_", "C", "O", "N", "F", "I", "G", "_", "F", "I", "L", "E",
      "=", "/", "a", "p", "p", "/">>

\* "NO_TUI=true"
NoTuiEnv ==
    <<"N", "O", "_", "T", "U", "I", "=", "t", "r", "u", "e">>

\* ":/app:rw,z"
AppMount ==
    <<":", "/", "a", "p", "p", ":", "r", "w", ",", "z">>

\* "/app/.ssh/ansible-tui"
ContainerKeyPath ==
    <<"/", "a", "p", "p", "/", ".", "s", "s", "h", "/", "a", "n", "s", "i",
      "b", "l", "e", "-", "t", "u", "i">>

\* "True"
ForceColor ==
    <<"T", "r", "u", "e">>

\* GetContainerRuntime(): [runtime, err]
GetContainerRuntime(e, f) ==
    IF LookPath(e, f, Podman) = Nil THEN [runtime |-> Podman, err |-> Nil]
    ELSE IF LookPath(e, f, Docker) = Nil THEN [runtime |-> Docker, err |-> Nil]
    ELSE [runtime |-> << >>,
          err |-> E("Error", "no container runtime found")]

\* strings.Replace(s, "./", "", 1)
DropDotSlash(s) ==
    IF ~Contains(s, <<".", "/">>) THEN s
    ELSE LET k == CHOOSE i \in 1..(Len(s) - 1) :
                     /\ SubSeq(s, i, i + 1) = <<".", "/">>
                     /\ \A j \in 1..(i - 1) : SubSeq(s, j, j + 1) # <<".", "/">>
         IN  SubSeq(s, 1, k - 1) \o SubSeq(s, k + 2, Len(s))

\* the arguments of the container runtime
ContainerArgs(conf, command) ==
    <<<<"r", "u", "n">>, <<"-", "-", "r", "m">>, <<"-", "u">>,
      <<"r", "o", "o", "t">>, <<"-", "e">>,
      ConfigEnvPrefix \o DropDotSlash(conf.TempDirPath \o ContainerConfigName),
      <<"-", "e">>, NoTuiEnv, <<"-", "v">>, Cwd \o AppMount>>
    \o (IF conf.SshPrivateKeyFile # << >>
        THEN <<<<"-", "v">>,
               conf.SshPrivateKeyFile \o <<":">> \o ContainerKeyPath
                   \o <<":", "r", "o">>>>
        ELSE << >>)
    \o <<conf.Image, command>>

\* executeCommandInContainer that writes the configuration as it got it
executeCommandInContainer_WritesAsIs(conf, e, f, command) ==
    LET rt   == GetContainerRuntime(e, f)
        file == conf.TempDirPath \o ContainerConfigName
        w    == WriteFileFromString(f, file, <<conf>>)
        none == [fs |-> f, cmd |-> << >>, args |-> << >>]
    IN  IF rt.err # Nil
        THEN none @@ [err |-> E("ExecutionError", "no container runtime")]
        ELSE IF w.err # Nil THEN none @@ [err |-> w.err]
        ELSE [fs |-> w.fs, err |-> Nil, cmd |-> rt.runtime,
              args |-> ContainerArgs(conf, command)]

\* executeCommandInContainer up to its call of RunBufferedCommand:
\* [fs, err, cmd, args]; err is Nil when RunBufferedCommand is called
executeCommandInContainer(conf, e, f, command) ==
    LET rt   == GetContainerRuntime(e, f)
        file == conf.TempDirPath \o ContainerConfigName
        yaml == [conf EXCEPT
                   !.SshPrivateKeyFile =
                       IF @ # << >> THEN ContainerKeyPath ELSE @,
                   !.Image = << >>]
        w    == WriteFileFromString(f, file, <<yaml>>)
        none == [fs |-> f, cmd |-> << >>, args |-> << >>]
    IN  IF rt.err # Nil
        THEN none @@
             [err |-> E("ExecutionError",
                        "container image was specified, but no container runtime could be found (docker or podman)")]
        ELSE IF conf.SshPrivateKeyFile # << >>
                /\ EvalSymlinks(f, conf.SshPrivateKeyFile) # Nil
        THEN none @@ [err |-> EvalSymlinks(f, conf.SshPrivateKeyFile)]
        ELSE IF w.err # Nil THEN none @@ [err |-> w.err]
        ELSE [fs |-> w.fs, err |-> Nil, cmd |-> rt.runtime,
              args |-> ContainerArgs(conf, command)]

\* "-v", "-vv", ...: the verbosity argument, none at level 0
VerboseArg(level) ==
    IF level > 0 THEN <<<<"-">> \o [i \in 1..level |-> "v"]>> ELSE << >>

\* the arguments of ansible-playbook
PlaybookArgs(conf) ==
    VerboseArg(conf.VerboseLevel)
    \o <<InventoryArg, conf.InventoryFile, conf.Playbook>>
    \o (IF conf.LimitHost # << >>
        THEN <<<<"-", "-", "l", "i", "m", "i", "t">>, conf.LimitHost>>
        ELSE << >>)
    \o (IF conf.ExtraArgs # << >> THEN Fields(conf.ExtraArgs) ELSE << >>)

\* RunAnsiblePlaybook returns rc and err without running a command
ReturnFromRun(rc, e) ==
    /\ run' = [NoRun EXCEPT !.rc = rc, !.err = e]
    /\ pc' = "ranPlaybook"
    /\ last' = "RunAnsiblePlaybook"

\* RunAnsiblePlaybook with an image: executeCommandInContainer
RunContainer ==
    /\ pc = "validated"
    /\ c.Image # << >>
    /\ LET x == executeCommandInContainer(c, env, fs, ContainerEntry)
       IN  /\ fs' = x.fs
           /\ IF x.err # Nil
              THEN ReturnFromRun(1, x.err)
              ELSE /\ run' = [NoRun EXCEPT !.cmd = x.cmd, !.args = x.args,
                                           !.timeout = -1]
                   /\ pc' = "rbcStart"
                   /\ last' = last
    /\ UNCHANGED <<arg, ret, c, env, cfgFile, err, exitCode, procs, world, inv, http>>

\* RunAnsiblePlaybook without an image, up to validateAnsibleInventory
RunLocal ==
    /\ pc = "validated"
    /\ c.Image = << >>
    /\ LET e1 == PrependVenv(env, c.VirtualEnvPath)
           e2 == IF c.SshPrivateKeyFile # << >>
                 THEN Setenv(e1, "ANSIBLE_PRIVATE_KEY_FILE", c.SshPrivateKeyFile)
                 ELSE e1
           e3 == IF c.RemoteUser # << >>
                 THEN Setenv(e2, "ANSIBLE_REMOTE_USER", c.RemoteUser) ELSE e2
           lp == LookPath(e1, fs, AnsiblePlaybookName)
       IN  IF lp # Nil
           THEN /\ env' = e1
                /\ ReturnFromRun(1, lp)
           ELSE /\ env' = Setenv(e3, "ANSIBLE_FORCE_COLOR", ForceColor)
                /\ pc' = "invStart"
                /\ UNCHANGED <<run, last>>
    /\ UNCHANGED <<arg, ret, fs, c, cfgFile, err, exitCode, procs, world, inv, http>>

\* a check that lets every inventory through
AbortNever(e) == FALSE

\* "err = c.validateAnsibleInventory(); if err != nil"
AbortOnInvalidInventory(e) == e # Nil

\* RunAnsiblePlaybook after validateAnsibleInventory: return 1 and the error,
\* or call RunBufferedCommand with ansible-playbook
RunAfterInventory ==
    /\ pc = "invReturned"
    /\ IF AbortOnInvalidInventory(inv.ret)
       THEN ReturnFromRun(1, inv.ret)
       ELSE /\ run' = [NoRun EXCEPT !.cmd = AnsiblePlaybookName,
                                    !.args = PlaybookArgs(c),
                                    !.timeout = c.PlaybookTimeout]
            /\ pc' = "rbcStart"
            /\ last' = last
    /\ UNCHANGED <<arg, ret, fs, c, env, cfgFile, err, exitCode, procs, world,
                   inv, http>>

\* "return rc, err" after RunBufferedCommand
RunReturn ==
    /\ pc = "rbcReturned"
    /\ pc' = "ranPlaybook"
    /\ last' = "RunAnsiblePlaybook"
    /\ UNCHANGED <<arg, ret, fs, c, env, cfgFile, err, exitCode, procs, world,
                   inv, run, http>>

(***************************************************************************)
(* main (package main), without the TUI                                    *)
(***************************************************************************)
\* err = c.ProcessEnvs(); a write to the nil map panics: exit status 2.
\* arg keeps the configuration and the environment of the call.
ProcessEnvsStep ==
    /\ pc = "envsRead"
    /\ LET r == ProcessEnvs(c, env)
       IN  /\ c' = r.c
           /\ env' = r.env
           /\ pc' = IF r.panic THEN "exit" ELSE "envsProcessed"
           /\ exitCode' = IF r.panic THEN 2 ELSE exitCode
           /\ last' = IF r.panic THEN "panic" ELSE "ProcessEnvs"
    /\ arg' = [c |-> c, env |-> env]
    /\ http' = [http EXCEPT !.envsProcessed = @ + 1]
    /\ UNCHANGED <<ret, fs, cfgFile, err, procs, world, inv, run>>

\* c.Metrics.ExitCode, err = c.RunAnsiblePlaybook(); os.Exit(1) on error,
\* os.Exit(c.Metrics.ExitCode) otherwise
MainExit ==
    /\ pc = "ranPlaybook"
    /\ c' = [c EXCEPT !.ExitCode = run.rc]
    /\ err' = run.err
    /\ exitCode' = IF run.err # Nil THEN 1 ELSE run.rc
    /\ pc' = "exit"
    /\ UNCHANGED <<arg, ret, fs, env, cfgFile, procs, last, runVars>>

(***************************************************************************)
(* SpecPath: sanitizePath applied to every short path over an alphabet     *)
(* that holds allowed and forbidden characters, on several filesystems.    *)
(***************************************************************************)
PathChars == {"a", ".", "/", "~", " "}

RECURSIVE SeqsUpTo(_, _)
SeqsUpTo(S, n) ==
    IF n = 0 THEN {<< >>}
    ELSE LET shorter == SeqsUpTo(S, n - 1)
         IN  shorter \cup {Append(s, x) : s \in shorter, x \in S}

Paths == SeqsUpTo(PathChars, MaxPathLen)

PathFilesystems ==
    { [files |-> NoFiles, dirs |-> {}, ro |-> FALSE],
      [files |-> FilesOf({<<"a">>, <<"a", ".", ".">>, <<"~">>}),
       dirs |-> {<<"/">>, <<".", ".">>}, ro |-> FALSE] }

InitPath ==
    /\ pc = "call"
    /\ arg \in Paths
    /\ fs \in PathFilesystems
    /\ ret = Nil
    /\ c = NewPlaybookConfig
    /\ env = NoEnv
    /\ cfgFile = NoConfigFile
    /\ err = Nil
    /\ exitCode = Running
    /\ procs = << >>
    /\ last = "none"
    /\ world = NoWorld
    /\ inv = NoInv
    /\ http = NoHttp
    /\ run = NoRun

CallSanitizePath ==
    /\ pc = "call"
    /\ ret' = sanitizePath(fs, arg)
    /\ pc' = "done"
    /\ UNCHANGED <<arg, fs, c, env, cfgFile, err, exitCode, procs, last, runVars>>

NextPath == CallSanitizePath

SpecPath == InitPath /\ [][NextPath]_vars

\* C7: sanitizePath returns an InputError for every path that contains ".."
\* and for every path that holds a character outside [A-Za-z0-9./_-]
\* (the empty path included), whatever the filesystem holds.
C7_SanitizeRejects ==
    (pc = "done" /\ (regExpDblDots(arg) \/ ~regExpPathName(arg)))
        => ret.kind = "InputError"

\* C7 witness: a path of allowed characters holding ".." that exists on the
\* filesystem has been rejected.
C7_Witness ==
    /\ pc = "done"
    /\ regExpPathName(arg)
    /\ regExpDblDots(arg)
    /\ Exists(fs, arg)
    /\ ret.kind = "InputError"

(***************************************************************************)
(* SpecEnv: ReadConf then ReadEnvs, as main calls them, for every          *)
(* environment that sets at most MaxEnvSet variables.                      *)
(***************************************************************************)
\* Most environment variables set at once.
MaxEnvSet == 2

IntEnvNames == {"VERBOSE_LEVEL", "ANSIBLE_PLAYBOOK_TIMEOUT"}

\* the variables of C3: each has a field of the configuration file
FieldOfEnv ==
    [ PLAYBOOK                 |-> "Playbook",
      VERBOSE_LEVEL            |-> "VerboseLevel",
      SSH_PRIVATE_KEY_FILE     |-> "SshPrivateKeyFile",
      ANSIBLE_REMOTE_USER      |-> "RemoteUser",
      INVENTORY_FILE           |-> "InventoryFile",
      LIMIT_HOST               |-> "LimitHost",
      EXTRA_VARS_FILE          |-> "ExtraVarsFile",
      ANSIBLE_TAGS             |-> "AnsibleTags",
      ANSIBLE_SKIP_TAGS        |-> "AnsibleSkipTags",
      EXTRA_ARGS               |-> "ExtraArgs",
      WINDOWS_GROUP            |-> "WindowsGroup",
      VIRTUAL_ENV              |-> "VirtualEnvPath",
      CONTAINER_IMAGE          |-> "Image",
      ANSIBLE_PLAYBOOK_TIMEOUT |-> "PlaybookTimeout" ]

FieldEnvNames == DOMAIN FieldOfEnv

\* every variable ReadEnvs reads
EnvNames ==
    FieldEnvNames \cup {"TMP_DIR_PATH", "INVENTORY_CONTENTS", "INVENTORY_URL",
                        "EXTRA_VARS_CONTENTS"}

TmpDir == <<".", "/", "t">>

\* the values drawn for a variable
EnvValues(name) ==
    IF name \in IntEnvNames THEN {<<"2">>, <<"x">>}
    ELSE IF name = "TMP_DIR_PATH" THEN {TmpDir}
    ELSE {<<"B">>}

Environments(names, n) ==
    UNION { {e \in [T -> UNION {EnvValues(x) : x \in T}] :
                \A x \in T : e[x] \in EnvValues(x)} :
            T \in {U \in SUBSET names : Cardinality(U) <= n} }

\* a configuration file that sets every field with an environment variable
FileAll ==
    [ kind |-> "ok",
      has  |-> {FieldOfEnv[n] : n \in FieldEnvNames},
      val  |-> [k \in DOMAIN NewPlaybookConfig |->
                  IF k = "VerboseLevel" THEN 3
                  ELSE IF k = "PlaybookTimeout" THEN 60
                  ELSE IF k \in {FieldOfEnv[n] : n \in FieldEnvNames}
                       THEN <<"A">>
                  ELSE NewPlaybookConfig[k]] ]

\* the configuration main starts from
MainConfig == [NewPlaybookConfig EXCEPT !.TempDirPath = defaultTempPath]

EnvFilesystems ==
    { [files |-> NoFiles, dirs |-> {}, ro |-> FALSE],
      [files |-> NoFiles, dirs |-> {}, ro |-> TRUE],
      [files |-> NoFiles, dirs |-> {Canon(defaultTempPath)}, ro |-> TRUE],
      [files |-> FilesOf({Canon(TmpDir)}), dirs |-> {}, ro |-> FALSE] }

InitEnv ==
    /\ pc = "start"
    /\ arg = << >>
    /\ ret = Nil
    /\ fs \in EnvFilesystems
    /\ c \in {MainConfig, NewPlaybookConfig}
    /\ env \in Environments(EnvNames, MaxEnvSet)
    /\ cfgFile \in {NoConfigFile, FileAll}
    /\ err = Nil
    /\ exitCode = Running
    /\ procs = << >>
    /\ last = "none"
    /\ world = NoWorld
    /\ inv = NoInv
    /\ http = NoHttp
    /\ run = NoRun

\* main: err = c.ReadConf(pbConfigFile); os.Exit(1) on error
ReadConfStep ==
    /\ pc = "start"
    /\ LET r == ReadConf(c, cfgFile)
       IN  /\ c' = r.c
           /\ err' = r.err
           /\ pc' = IF r.err = Nil THEN "confRead" ELSE "exit"
           /\ exitCode' = IF r.err = Nil THEN exitCode ELSE 1
    /\ last' = "ReadConf"
    /\ UNCHANGED <<arg, ret, fs, env, cfgFile, procs, runVars>>

\* main: err = c.ReadEnvs(); os.Exit(1) on error
ReadEnvsStep ==
    /\ pc = "confRead"
    /\ LET r == ReadEnvs(c, env, fs)
       IN  /\ c' = r.c
           /\ fs' = r.fs
           /\ err' = r.err
           /\ pc' = IF r.err = Nil THEN "envsRead" ELSE "exit"
           /\ exitCode' = IF r.err = Nil THEN exitCode ELSE 1
    /\ last' = "ReadEnvs"
    /\ UNCHANGED <<arg, ret, env, cfgFile, procs, runVars>>

NextEnv == ReadConfStep \/ ReadEnvsStep

SpecEnv == InitEnv /\ [][NextEnv]_vars

\* the field of a variable holds the variable's value
FieldEquals(conf, name, value) ==
    IF name \in IntEnvNames
    THEN Atoi(value).err = Nil /\ conf[FieldOfEnv[name]] = Atoi(value).val
    ELSE conf[FieldOfEnv[name]] = value

InventorySources == {"INVENTORY_FILE", "INVENTORY_CONTENTS", "INVENTORY_URL"}
ExtraVarsSources == {"EXTRA_VARS_FILE", "EXTRA_VARS_CONTENTS"}

InventoryConflict == Cardinality(DOMAIN env \cap InventorySources) > 1
ExtraVarsConflict == Cardinality(DOMAIN env \cap ExtraVarsSources) > 1

TooManyInventory ==
    E("InputError", "only one inventory environment variable is allowed")
TooManyExtraVars ==
    E("InputError", "only one extra-vars environment variable is allowed")

\* C6 as stated: ReadEnvs returns the InputError whenever two sources of the
\* same input are set, and no InputError otherwise.
C6_Original ==
    last = "ReadEnvs" =>
        /\ InventoryConflict => err = TooManyInventory
        /\ ExtraVarsConflict => err.kind = "InputError"
        /\ (~InventoryConflict /\ ~ExtraVarsConflict) => err.kind # "InputError"

\* the temp-dir can be created and the contents files can be written
Writable ==
    /\ ~fs.ro
    /\ c.TempDirPath # << >>
    /\ ~IsFile(fs, c.TempDirPath)

\* C6: when two sources of the same input are set ReadEnvs returns a non-nil
\* error; it is the InputError ("only one inventory environment variable is
\* allowed" for the inventory, which is checked first) when the temp-dir can
\* be created and the contents files can be written, and the error of the
\* file system otherwise.  With at most one source per input ReadEnvs returns
\* no InputError.
C6_OneSourcePerInput ==
    last = "ReadEnvs" =>
        /\ (InventoryConflict \/ ExtraVarsConflict) => err # Nil
        /\ (InventoryConflict /\ Writable) => err = TooManyInventory
        /\ (ExtraVarsConflict /\ ~InventoryConflict /\ Writable)
              => err = TooManyExtraVars
        /\ (InventoryConflict \/ ExtraVarsConflict) /\ err.kind # "InputError"
              => ~Writable /\ err.kind \in {"PathError", "Error"}
        /\ (~InventoryConflict /\ ~ExtraVarsConflict) => err.kind # "InputError"

\* C6 witness: INVENTORY_FILE and INVENTORY_CONTENTS are both set, the
\* contents were written and the InputError was returned.
C6_Witness ==
    /\ last = "ReadEnvs"
    /\ DOMAIN env = {"INVENTORY_FILE", "INVENTORY_CONTENTS"}
    /\ IsFile(fs, HostsInventoryPath)
    /\ err = TooManyInventory

(***************************************************************************)
(* SpecValidate: ValidateInputs, as main calls it, on every configuration  *)
(* drawn from the values below, over one filesystem.                       *)
(***************************************************************************)
ExecVenv == <<"v", "e", "n", "v">>
ExecContainer == <<"c", "o", "n", "t", "a", "i", "n", "e", "r">>
SomeImage == <<"i", "m", "g">>
HomeDir == <<"/", "h">>

\* ./p is a playbook, ./i an inventory, ./x an extra-vars file, ./k and ~/k
\* are keys, ./d is a directory, ./v a virtual environment and ./u one that
\* lacks ansible-inventory; ./q and ./m do not exist.
ValidateFs ==
    [ files |-> FilesOf({<<"p">>, <<"i">>, <<"x">>, <<"k">>,
                         HomeDir \o <<"/", "k">>,
                         JoinBin(<<"v">>, AnsiblePlaybookName),
                         JoinBin(<<"v">>, AnsibleInventoryName),
                         JoinBin(<<"u">>, AnsiblePlaybookName)}),
      dirs  |-> {<<"d">>, <<"v">>, <<"u">>, HomeDir,
                 JoinBin(<<"v">>, << >>), JoinBin(<<"u">>, << >>)},
      ro    |-> FALSE ]

ValidateConfigs ==
    { [NewPlaybookConfig EXCEPT
          !.Playbook = pb, !.InventoryFile = invf, !.ExtraVarsFile = ev,
          !.VirtualEnvPath = venv, !.Image = img, !.ExecutionType = et,
          !.SshPrivateKeyFile = key, !.VerboseLevel = vl,
          !.TempDirPath = defaultTempPath] :
        pb \in {<< >>, <<".", "/", "p">>, <<".", "/", "q">>, <<"p">>,
                <<".", "/", "d">>},
        invf \in {<< >>, <<".", "/", "i">>, <<".", "/", "m">>,
                  Cwd \o <<"/", "i">>},
        ev \in {<< >>, <<".", "/", "x">>, ExtraVarsContentsPath,
                Cwd \o <<"/", "x">>},
        venv \in {<< >>, <<".", "/", "v">>, <<".", "/", "u">>},
        img \in {<< >>, SomeImage},
        et \in {<< >>, ExecVenv, ExecContainer},
        key \in {<< >>, <<".", "/", "k">>, <<"~", "/", "k">>},
        vl \in {-1, 0, 7, 8} }

InitValidate ==
    /\ pc = "envsProcessed"
    /\ arg = << >>
    /\ ret = Nil
    /\ fs = ValidateFs
    /\ c \in ValidateConfigs
    /\ env = [n \in {"HOME"} |-> HomeDir]
    /\ cfgFile = NoConfigFile
    /\ err = Nil
    /\ exitCode = Running
    /\ procs = << >>
    /\ last = "ProcessEnvs"
    /\ world = NoWorld
    /\ inv = NoInv
    /\ http = NoHttp
    /\ run = NoRun

\* main: err = c.ValidateInputs(); os.Exit(1) on error.  arg keeps the
\* configuration ValidateInputs was called on.
ValidateInputsStep ==
    /\ pc = "envsProcessed"
    /\ LET r == ValidateInputs(c, env, fs)
       IN  /\ c' = r.c
           /\ err' = r.err
           /\ pc' = IF r.err = Nil THEN "validated" ELSE "exit"
           /\ exitCode' = IF r.err = Nil THEN exitCode ELSE 1
    /\ arg' = c
    /\ last' = "ValidateInputs"
    /\ UNCHANGED <<ret, fs, env, cfgFile, procs, runVars>>

NextValidate == ValidateInputsStep

SpecValidate == InitValidate /\ [][NextValidate]_vars

\* ValidateInputs was called with both a virtual environment and an image
\* and with playbook, inventory and extra-vars files that pass their checks
BothModesGiven ==
    /\ last = "ValidateInputs"
    /\ arg.VirtualEnvPath # << >>
    /\ arg.Image # << >>
    /\ CheckInputFiles(arg, fs) = Nil

\* C4: with both virtual-env-path and image set and an execution-type that
\* is neither "venv" nor "container", ValidateInputs returns an InputError
\* and leaves both fields as they were.
C4_ConflictIsInputError ==
    (BothModesGiven /\ arg.ExecutionType \notin {ExecVenv, ExecContainer})
        => /\ err.kind = "InputError"
           /\ c.VirtualEnvPath = arg.VirtualEnvPath
           /\ c.Image = arg.Image

\* C5: with both virtual-env-path and image set, execution-type "venv"
\* clears image and keeps virtual-env-path, execution-type "container"
\* clears virtual-env-path and keeps image, and at most one of the two is
\* set when ValidateInputs returns nil.
C5_ExecutionTypeResolves ==
    BothModesGiven =>
        /\ arg.ExecutionType = ExecVenv
              => c.Image = << >> /\ c.VirtualEnvPath # << >>
        /\ arg.ExecutionType = ExecContainer
              => c.VirtualEnvPath = << >> /\ c.Image = arg.Image
        /\ (arg.ExecutionType \in {ExecVenv, ExecContainer} /\ err = Nil)
              => (c.Image = << >> \/ c.VirtualEnvPath = << >>)

\* C14: a verbose level below 0 or above 7 never makes ValidateInputs fail:
\* the field becomes 1 and the other checks decide, as they do for every
\* level from 0 to 7; a level from 0 to 7 is left as it is.
C14_VerboseLevelReset ==
    (last = "ValidateInputs" /\ pc \in {"validated", "exit"}) =>
        /\ c.VerboseLevel = IF arg.VerboseLevel \in 0..7
                            THEN arg.VerboseLevel ELSE 1
        /\ \A v \in 0..7 :
              err = ValidateInputs([arg EXCEPT !.VerboseLevel = v], env, fs).err

\* level 8 was reset and every check passed
C14_Witness ==
    /\ last = "ValidateInputs"
    /\ arg.VerboseLevel = 8
    /\ c.VerboseLevel = 1
    /\ pc = "validated"
    /\ err = Nil

\* level -1 was reset and another check failed
C14_WitnessNegative ==
    /\ last = "ValidateInputs"
    /\ arg.VerboseLevel = -1
    /\ c.VerboseLevel = 1
    /\ pc = "exit"
    /\ err # Nil

\* the path relative to the working directory of a file given by its
\* absolute path
ToRelative(path) ==
    IF HasPrefix(path, Cwd \o <<"/">>)
    THEN <<".", "/">> \o SubSeq(path, Len(Cwd) + 2, Len(path))
    ELSE path

\* C18: ValidateInputs treats an inventory or extra-vars file given by its
\* absolute path as it treats the same file given by a relative path.
C18_AbsoluteAsRelative ==
    (last = "ValidateInputs" /\ pc \in {"validated", "exit"}) =>
        err = ValidateInputs([arg EXCEPT !.InventoryFile = ToRelative(@),
                                         !.ExtraVarsFile = ToRelative(@)],
                             env, fs).err

\* the inventory /w/i was refused although ./i passes every check
C18_AbsoluteRejected ==
    /\ last = "ValidateInputs"
    /\ arg.InventoryFile = Cwd \o <<"/", "i">>
    /\ IsFile(fs, arg.InventoryFile)
    /\ err.kind = "InputError"
    /\ ValidateInputs([arg EXCEPT !.InventoryFile = <<".", "/", "i">>],
                      env, fs).err = Nil

(***************************************************************************)
(* SpecInv: validateAnsibleInventory with every child that writes at most  *)
(* MaxScriptLen lines, under every interleaving of the child, the two      *)
(* reader goroutines and the foreground.                                   *)
(***************************************************************************)
\* Most lines a child writes.
MaxScriptLen == 2

ParseErrorLine == <<"E">> \o UnableToParse
WarnLine == <<"w">>
HostLine == <<"|", "-", "-", "h">>
GroupLine == <<"@", "g", ":">>

\* the same host one level deeper in the graph, and a group of groups
IndentedHostLine == <<" ", " ", "|", " ", " ", "|", "-", "-", "h">>
ChildrenLine == <<"|", "-", "-", "g", ":", "c", "h", "i", "l", "d", "r", "e", "n">>

InvOutputs ==
    { [fd |-> "err", line |-> ParseErrorLine], [fd |-> "err", line |-> WarnLine],
      [fd |-> "out", line |-> HostLine], [fd |-> "out", line |-> GroupLine],
      [fd |-> "out", line |-> IndentedHostLine],
      [fd |-> "out", line |-> ChildrenLine] }

\* the graph "@all:", "|--host1", "|--web:children", "|--host1"
GraphExample ==
    LET out(l) == [fd |-> "out", line |-> l]
    IN  << out(<<"@", "a", "l", "l", ":">>),
           out(<<"|", "-", "-", "h", "o", "s", "t", "1">>),
           out(<<"|", "-", "-", "w", "e", "b", ":", "c", "h", "i", "l", "d",
                 "r", "e", "n">>),
           out(<<"|", "-", "-", "h", "o", "s", "t", "1">>) >>

BinDir == <<"/", "b">>

\* ./p is a playbook, ./i an inventory and ./x a file of extra variables;
\* /b holds the ansible commands
\* and podman, /a/v is a virtual environment
RunFs ==
    [ files |-> FilesOf({<<"p">>, <<"i">>, <<"k">>, <<"x">>,
                         BinDir \o <<"/">> \o AnsiblePlaybookName,
                         BinDir \o <<"/">> \o AnsibleInventoryName,
                         BinDir \o <<"/", "p", "o", "d", "m", "a", "n">>,
                         JoinBin(<<"/", "a", "/", "v">>, AnsiblePlaybookName),
                         JoinBin(<<"/", "a", "/", "v">>, AnsibleInventoryName)}),
      dirs  |-> {BinDir, <<"/", "a">>, <<"/", "a", "/", "v">>,
                 JoinBin(<<"/", "a", "/", "v">>, << >>), HomeDir,
                 Canon(defaultTempPath)},
      ro    |-> FALSE ]

\* a configuration that passed ValidateInputs
ValidConfig ==
    [MainConfig EXCEPT !.Playbook = <<".", "/", "p">>,
                       !.InventoryFile = <<".", "/", "i">>]

InitInv ==
    /\ pc = "invStart"
    /\ arg = << >>
    /\ ret = Nil
    /\ fs = RunFs
    /\ c = ValidConfig
    /\ env \in {[n \in {"PATH"} |-> p] : p \in {BinDir, HomeDir}}
    /\ cfgFile = NoConfigFile
    /\ err = Nil
    /\ exitCode = Running
    /\ procs = << >>
    /\ last = "ValidateInputs"
    /\ world \in {[NoWorld EXCEPT !.invScript = sc, !.invExit = x,
                                  !.invStartFails = sf] :
                     sc \in SeqsUpTo(InvOutputs, MaxScriptLen) \cup {GraphExample},
                     x \in {0, 1}, sf \in BOOLEAN}
    /\ inv = NoInv
    /\ http = NoHttp
    /\ run = NoRun

NextInv ==
    \/ InvStart
    \/ InvChildWrite
    \/ InvChildExit
    \/ InvStderrRead
    \/ InvStdoutRead
    \/ InvWait
    \/ InvReturn

SpecInv == InitInv /\ [][NextInv]_vars

\* ansible-inventory was started and wrote ": Unable to parse" on stderr
WroteParseError ==
    /\ inv.child.state # "none"
    /\ \E i \in 1..Len(world.invScript) :
          /\ i < inv.child.ip
          /\ world.invScript[i].fd = "err"
          /\ regExpParseError(world.invScript[i].line)

\* C10: when a stderr line of ansible-inventory contains ": Unable to parse"
\* validateAnsibleInventory returns an error, whatever the exit code and the
\* interleaving of the stderr reader with the foreground Wait.
C10_ParseErrorDetected ==
    (pc = "invReturned" /\ WroteParseError) => inv.ret # Nil

\* the distinct names n of the stdout lines of the form <prefix>|--n
HostNames(script) ==
    LET outs == {script[k].line :
                    k \in {j \in 1..Len(script) : script[j].fd = "out"}}
        names(l) == {SubSeq(l, i + 3, Len(l)) :
                        i \in {j \in 1..(Len(l) - 3) :
                                  /\ SubSeq(l, j, j + 2) = <<"|", "-", "-">>
                                  /\ \A k \in (j + 3)..Len(l) :
                                         l[k] \in NameClass}}
    IN  UNION {names(l) : l \in outs}

C11_WitnessIndent ==
    /\ inv.outR.pc = "done"
    /\ world.invScript = <<[fd |-> "out", line |-> HostLine],
                           [fd |-> "out", line |-> IndentedHostLine]>>
    /\ c.InventoryCount = 1

\* C22: when validateAnsibleInventory returns, its stdout and stderr
\* goroutines have both read to EOF and InventoryCount holds the number of
\* distinct hosts of the whole stdout; nothing is written to rc or to
\* InventoryCount after the return.
C22_ReadersDoneAtReturn ==
    (pc = "invReturned" /\ inv.child.state # "none") =>
        /\ inv.errR.pc = "done"
        /\ inv.outR.pc = "done"
        /\ c.InventoryCount = Cardinality(HostNames(world.invScript))

\* validateAnsibleInventory has returned nil for a graph with a host while
\* the stdout goroutine is still running and the count is 0
C22_ReturnedBeforeCount ==
    /\ pc = "invReturned"
    /\ inv.ret = Nil
    /\ world.invScript = <<[fd |-> "out", line |-> HostLine]>>
    /\ inv.outR.pc = "run"
    /\ c.InventoryCount = 0

\* once validateAnsibleInventory has returned the count is not stored any
\* more: a goroutine that is still reading meets the closed pipe
C22_CountAfterReturn ==
    [][(pc = "invReturned" /\ pc' = "invReturned")
          => c'.InventoryCount = c.InventoryCount]_vars

(***************************************************************************)
(* SpecRun: RunBufferedCommand with every child that writes at most        *)
(* MaxScriptLen lines, called as its three callers call it.                *)
(***************************************************************************)
PlayLine == <<"o", "k">>

RunOutputs ==
    { [fd |-> "out", line |-> PlayLine], [fd |-> "err", line |-> WarnLine] }

\* the timeout of GetAnsibleInventory, in seconds
InventoryTimeout == 30

InitRun ==
    /\ pc = "rbcStart"
    /\ arg = << >>
    /\ ret = Nil
    /\ fs = RunFs
    /\ c = ValidConfig
    /\ env \in {[n \in {"PATH"} |-> p] : p \in {BinDir, HomeDir}}
    /\ cfgFile = NoConfigFile
    /\ err = Nil
    /\ exitCode = Running
    /\ procs = << >>
    /\ last = "ValidateInputs"
    /\ world \in {[NoWorld EXCEPT !.pbScript = sc, !.pbExit = x,
                                  !.pbStartFails = sf] :
                     sc \in SeqsUpTo(RunOutputs, MaxScriptLen),
                     x \in {0, 1, 2}, sf \in BOOLEAN}
    /\ inv = NoInv
    /\ http = NoHttp
    /\ run \in {[NoRun EXCEPT !.cmd = AnsiblePlaybookName,
                              !.args = PlaybookArgs(ValidConfig),
                              !.timeout = t, !.capture = cap] :
                   t \in {-1, 0, InventoryTimeout}, cap \in BOOLEAN}

NextRun ==
    \/ RbcStart
    \/ RbcChildWrite
    \/ RbcChildExit
    \/ RbcTimeout
    \/ RbcRead
    \/ RbcWait

SpecRun == InitRun /\ [][NextRun]_vars

\* C2: RunBufferedCommand returns a nil error and the exit code of the child
\* whenever the child was started and exited on its own; the error is
\* non-nil only when the child could not be started or Wait failed for
\* another reason than a non-zero exit, and the code is then 1.
C2_NilErrorOnExit ==
    pc = "rbcReturned" =>
        /\ run.child.state = "exited"
              => run.err = Nil /\ run.rc = world.pbExit
        /\ run.err # Nil
              => run.rc = 1 /\ run.err.kind # "ExitError"

\* the lines the command has written, to either pipe
Written == {world.pbScript[i].line : i \in 1..(run.child.ip - 1)}

\* C21: when RunBufferedCommand returns with captureOutput true its reader
\* goroutine has finished and outputLines holds every line the command
\* wrote to stdout and to stderr, whatever the interleaving of the reader
\* with the foreground Wait.
C21_CaptureComplete ==
    (pc = "rbcReturned" /\ run.capture /\ run.child.state # "none") =>
        /\ run.reader.pc = "done"
        /\ \A l \in Written : \E j \in 1..Len(run.outputLines) :
                                  run.outputLines[j] = l

\* the runner has returned while its reader had read nothing of the two
\* lines the command wrote before it ended
C21_ReturnedBeforeRead ==
    /\ pc = "rbcReturned"
    /\ run.capture
    /\ run.child.state = "exited"
    /\ Len(world.pbScript) = 2
    /\ run.reader.pc = "run"
    /\ run.outputLines = << >>

\* the reader met the closed pipe and stopped with lines missing
C21_LinesLost ==
    /\ pc = "rbcReturned"
    /\ run.capture
    /\ run.child.state = "exited"
    /\ run.reader.pc = "done"
    /\ \E l \in Written : \A j \in 1..Len(run.outputLines) :
                              run.outputLines[j] # l

\* cmd.Wait returns to the foreground once the child is gone
SpecRunFair == SpecRun /\ WF_vars(RbcWait)

\* C12: with timeoutSeconds > 0 a child that is still running when the
\* deadline expires is killed, RunBufferedCommand then returns without the
\* child having reached its natural end and reports a non-zero exit code;
\* with timeoutSeconds <= 0 the runner never kills the child.
C12_TimeoutKills ==
    /\ [](run.timeout <= 0 => run.child.state # "killed")
    /\ []((pc = "rbcReturned" /\ run.child.state = "killed") => run.rc # 0)
    /\ (run.child.state = "killed")
          ~> (pc = "rbcReturned" /\ run.child.state = "killed" /\ run.rc # 0)

\* the runner returned -1 for a child killed before it wrote its last line
C12_Witness ==
    /\ pc = "rbcReturned"
    /\ run.timeout > 0
    /\ run.child.state = "killed"
    /\ run.child.ip <= Len(world.pbScript)
    /\ run.rc = -1

(***************************************************************************)
(* Spec: main without the TUI, from ReadConf to os.Exit, with the          *)
(* goroutines and children of the two command runners.                     *)
(***************************************************************************)
MissingFile == <<".", "/", "m">>
ExtraVarsPath == <<".", "/", "x">>
VenvDir == <<"/", "a", "/", "v">>

\* the configuration files: one that cannot be read, and files that name
\* the playbook ./p and the inventory ./i, with or without an image and a
\* virtual environment
MainFiles ==
    {[kind |-> "missing", has |-> {}, val |-> NewPlaybookConfig]}
    \cup
    {[kind |-> "ok",
      has  |-> {"Playbook", "InventoryFile", "Image", "VirtualEnvPath"},
      val  |-> [ValidConfig EXCEPT !.Image = img, !.VirtualEnvPath = venv]] :
        img \in {<< >>, SomeImage}, venv \in {<< >>, VenvDir}}

MainEnvs ==
    {[n \in {"PATH", "HOME"} |-> IF n = "PATH" THEN p ELSE HomeDir] :
        p \in {BinDir, HomeDir}}
    \cup
    {[n \in {"PATH", "HOME", "INVENTORY_FILE"} |->
         IF n = "PATH" THEN p ELSE IF n = "HOME" THEN HomeDir ELSE f] :
        p \in {BinDir, HomeDir}, f \in {<<".", "/", "i">>, MissingFile}}
    \cup
    {[n \in {"PATH", "HOME", "EXTRA_VARS_FILE"} |->
         IF n = "PATH" THEN BinDir ELSE IF n = "HOME" THEN HomeDir
         ELSE ExtraVarsPath]}
    \cup
    {[n \in {"PATH", "HOME", "SSH_PRIVATE_KEY_FILE"} |->
         IF n = "PATH" THEN BinDir ELSE IF n = "HOME" THEN HomeDir
         ELSE <<".", "/", "k">>]}
    \cup
    {[n \in {"PATH", "HOME", v} |->
         IF n = "PATH" THEN BinDir ELSE IF n = "HOME" THEN HomeDir
         ELSE <<"h">>] : v \in {"INVENTORY_CONTENTS", "EXTRA_VARS_CONTENTS"}}

MainWorlds ==
    {[invScript |-> isc, invExit |-> ix, invStartFails |-> isf,
      pbScript |-> psc, pbExit |-> px, pbStartFails |-> psf] :
        isc \in {<< >>, <<[fd |-> "err", line |-> ParseErrorLine]>>,
                 <<[fd |-> "out", line |-> HostLine]>>},
        ix \in {0, 1}, isf \in BOOLEAN,
        psc \in {<< >>, <<[fd |-> "out", line |-> PlayLine]>>},
        px \in {0, 2}, psf \in BOOLEAN}

Init ==
    /\ pc = "start"
    /\ arg = << >>
    /\ ret = Nil
    /\ fs = RunFs
    /\ c = MainConfig
    /\ env \in MainEnvs
    /\ cfgFile \in MainFiles
    /\ err = Nil
    /\ exitCode = Running
    /\ procs = << >>
    /\ last = "none"
    /\ world \in MainWorlds
    /\ inv = NoInv
    /\ http = NoHttp
    /\ run = NoRun

Next ==
    \/ ReadConfStep
    \/ ReadEnvsStep
    \/ ProcessEnvsStep
    \/ ValidateInputsStep
    \/ RunContainer
    \/ RunLocal
    \/ InvStart
    \/ InvChildWrite
    \/ InvChildExit
    \/ InvStderrRead
    \/ InvStdoutRead
    \/ InvWait
    \/ InvReturn
    \/ RunAfterInventory
    \/ RbcStart
    \/ RbcChildWrite
    \/ RbcChildExit
    \/ RbcTimeout
    \/ RbcRead
    \/ RbcWait
    \/ RunReturn
    \/ MainExit

Spec == Init /\ [][Next]_vars

\* the command was started
Started(name) == \E i \in 1..Len(procs) : procs[i].cmd = name

\* C1: the process exits with the exit code of the ansible-playbook or
\* container-runtime child whenever that child was run and exited on its
\* own, and with 1 when a step before it failed.
C1_ExitCodeIsChildExitCode ==
    pc = "exit" =>
        /\ run.child.state = "exited" => exitCode = world.pbExit
        /\ run.child.state = "none" => exitCode = 1

C9_InventoryFirst ==
    c.Image = << >> =>
        /\ Started(AnsiblePlaybookName)
              => /\ procs[1].cmd = AnsibleInventoryName
                 /\ inv.child.closed
                 /\ inv.ret = Nil
        /\ inv.ret # Nil => ~Started(AnsiblePlaybookName)
        /\ (inv.ret # Nil /\ last = "RunAnsiblePlaybook")
              => run.rc # 0 /\ run.err # Nil

\* C9 witness: ansible-inventory ran and the inventory was found invalid;
\* RunAnsiblePlaybook returned 1 and the error with no other command started.
C9_Witness ==
    /\ last = "RunAnsiblePlaybook"
    /\ inv.ret.kind = "InputError"
    /\ Len(procs) = 1
    /\ procs[1].cmd = AnsibleInventoryName
    /\ run.rc = 1
    /\ run.err = inv.ret

(***************************************************************************)
(* SpecProcess: ProcessEnvs on every configuration with a pass list of at  *)
(* most MaxPassLen names and a set map that is nil, empty or holds the     *)
(* names A and B, in environments where each variable is set or not.       *)
(***************************************************************************)
\* Most names in environment-variables.pass.
MaxPassLen == 2

PassNames == {"A", "B"}

\* the maps of environment-variables.set: nil when the key is absent
SetMaps ==
    {NilMap}
    \cup
    {[isNil |-> FALSE, m |-> [n \in d |-> IF n = "A" THEN v ELSE <<"2">>]] :
        d \in SUBSET PassNames, v \in {<< >>, <<"2">>}}

\* A may be set to the empty string; X is named nowhere in the configuration
ProcessEnvironments ==
    {[n \in d |-> IF n = "A" THEN a
                  ELSE IF n = "PATH" THEN BinDir
                  ELSE IF n = "HOME" THEN HomeDir ELSE <<"1">>] :
        d \in SUBSET {"A", "B", "PATH", "HOME", "X"}, a \in {<< >>, <<"1">>}}

InitProcess ==
    /\ pc = "envsRead"
    /\ arg = << >>
    /\ ret = Nil
    /\ fs = RunFs
    /\ c \in {[ValidConfig EXCEPT !.Pass = p, !.Set = m] :
                 p \in SeqsUpTo(PassNames, MaxPassLen), m \in SetMaps}
    /\ env \in ProcessEnvironments
    /\ cfgFile = NoConfigFile
    /\ err = Nil
    /\ exitCode = Running
    /\ procs = << >>
    /\ last = "ReadEnvs"
    /\ world = NoWorld
    /\ inv = NoInv
    /\ http = NoHttp
    /\ run = NoRun

NextProcess == ProcessEnvsStep

SpecProcess == InitProcess /\ [][NextProcess]_vars

\* ProcessEnvs has returned; arg holds the configuration and the
\* environment it was called with
ProcessEnvsReturned == pc = "envsProcessed" /\ last = "ProcessEnvs"

\* the pass-list names that had a non-empty value at the call
PassedThrough ==
    {arg.c.Pass[i] : i \in {j \in 1..Len(arg.c.Pass) :
                               Getenv(arg.env, arg.c.Pass[j]) # << >>}}

\* C13: after ProcessEnvs returns, the variables of the process environment
\* are exactly the keys of the set map, the pass-list names that had a
\* non-empty value, and PATH and HOME if they were set; a set-map key has
\* its set-map value, also when it is in the pass list, a passed-through
\* name keeps its value, and every other variable is gone.
C13_EnvironmentAfter ==
    ProcessEnvsReturned =>
        LET setKeys == DOMAIN arg.c.Set.m
        IN  /\ DOMAIN env = setKeys \cup PassedThrough
                                \cup (autoPassEnvs \cap DOMAIN arg.env)
            /\ \A n \in setKeys : env[n] = arg.c.Set.m[n]
            /\ \A n \in DOMAIN env \ setKeys : env[n] = arg.env[n]

\* A was passed and set, B was passed through, X was removed
C13_Witness ==
    /\ ProcessEnvsReturned
    /\ arg.c.Pass = <<"A", "B">>
    /\ DOMAIN arg.c.Set.m = {"A"}
    /\ DOMAIN arg.env = {"A", "B", "PATH", "HOME", "X"}
    /\ arg.env["A"] = <<"1">>
    /\ env["A"] = <<"2">>
    /\ env["B"] = <<"1">>
    /\ DOMAIN env = {"A", "B", "PATH", "HOME"}

(***************************************************************************)
(* The HTTP listener (package main of cmd/api): mainListener has made      *)
(* requestChannel, started the workers and the HTTP server.                *)
(***************************************************************************)
\* Enqueue: a select with the send on requestChannel and a default:
\* [queue, err, panic].  A send on a closed channel panics.
Enqueue(ch, request) ==
    IF ch.closed
    THEN [queue |-> ch.queue, err |-> Nil, panic |-> TRUE]
    ELSE IF Len(ch.queue) < maxPlaybookConcurrent
    THEN [queue |-> Append(ch.queue, request), err |-> Nil, panic |-> FALSE]
    ELSE [queue |-> ch.queue, err |-> E("ExecutionError", "work queue full"),
          panic |-> FALSE]

\* Requests the server receives.
MaxRequests == 6

\* the PlaybookConfig of a request: playbook ./p, inventory ./i and remote
\* user a, or inventory ./i, remote user b and no playbook
Payloads ==
    {[ZeroPlaybookConfig EXCEPT !.Playbook = <<".", "/", "p">>,
                                !.InventoryFile = <<".", "/", "i">>,
                                !.RemoteUser = <<"a">>],
     [ZeroPlaybookConfig EXCEPT !.InventoryFile = <<".", "/", "i">>,
                                !.RemoteUser = <<"b">>]}

\* handleAnsible on one request, in the goroutine net/http starts for it:
\* the body cannot be read or unzipped, is not JSON, or is a PlaybookConfig.
\* log.Fatal ends the process; net/http recovers a panic of the handler and
\* drops the connection without a status.
handleAnsible ==
    /\ pc \in {"listen", "closing"}
    /\ http.count < MaxRequests
    /\ \E method \in {"POST", "GET"}, body \in {"json", "unreadable", "notjson"} :
          LET id == http.count + 1
              q  == Enqueue(http, id)
              r0 == [NoResp EXCEPT !.id = id, !.method = method, !.body = body]
          IN  IF method # "POST"
              THEN /\ http' = [http EXCEPT !.count = id,
                                           !.resp = [r0 EXCEPT !.status = 405]]
                   /\ UNCHANGED <<pc, exitCode, last>>
              ELSE IF body = "unreadable"
              THEN /\ http' = [http EXCEPT !.count = id,
                                           !.resp = [r0 EXCEPT !.status = 500]]
                   /\ UNCHANGED <<pc, exitCode, last>>
              ELSE IF body = "notjson"
              THEN /\ http' = [http EXCEPT !.count = id, !.resp = r0]
                   /\ Fatal
              ELSE /\ http' = [http EXCEPT
                                 !.count = id,
                                 !.queue = q.queue,
                                 !.resp = [r0 EXCEPT
                                    !.called = TRUE,
                                    !.pending = Len(http.queue),
                                    !.err = q.err,
                                    !.panic = q.panic,
                                    !.status = IF q.panic THEN 0
                                               ELSE IF q.err # Nil THEN 500
                                               ELSE 200]]
                   /\ UNCHANGED <<pc, exitCode, last>>
    /\ UNCHANGED <<arg, ret, fs, c, env, cfgFile, err, procs, world, inv, run>>

\* the workers after one of them went from state from to state to
Move(workers, from, to) ==
    (workers (-) SetToBag({from})) (+) SetToBag({to})

\* process: a worker receives the next request of requestChannel, or leaves
\* its loop when the channel is closed and empty.  Nothing reads the payload
\* of a request before a worker has received it, so its value is drawn
\* here.
process ==
    /\ exitCode = Running
    /\ BagIn(NoWorker, http.workers)
    /\ IF http.queue # << >>
       THEN \E payload \in Payloads :
               http' = [http EXCEPT
                          !.queue = Tail(@),
                          !.workers = Move(@, NoWorker,
                                           [NoWorker EXCEPT
                                              !.pc = "handle",
                                              !.payload = payload])]
       ELSE /\ http.closed
            /\ http' = [http EXCEPT
                          !.workers = Move(@, NoWorker,
                                           [NoWorker EXCEPT !.pc = "done"])]
    /\ UNCHANGED <<pc, arg, ret, fs, c, env, cfgFile, err, exitCode, procs,
                   last, world, inv, run>>

\* handle up to validateAnsibleInventory: validateInputs, whose error is
\* dropped, then runAnsiblePlaybook, which returns when ansible-playbook is
\* not found and else writes the key file and the remote user of the
\* request to the environment of the process.  processInputs is not called.
\* A worker that returns from runAnsiblePlaybook is at "outputChan <- nil",
\* on a channel without buffer that nothing receives from, and does not use
\* its request again.
handle ==
    /\ exitCode = Running
    /\ \E w \in BagToSet(http.workers) :
          LET v    == ValidateInputs(w.payload, env, fs)
              e1   == PrependVenv(env, v.c.VirtualEnvPath)
              e2   == IF v.c.SshPrivateKeyFile # << >>
                      THEN Setenv(e1, "ANSIBLE_PRIVATE_KEY_FILE",
                                  v.c.SshPrivateKeyFile)
                      ELSE e1
              e3   == IF v.c.RemoteUser # << >>
                      THEN Setenv(e2, "ANSIBLE_REMOTE_USER", v.c.RemoteUser)
                      ELSE e2
          IN  /\ w.pc = "handle"
              /\ v.c.Image = << >>
              /\ IF LookPath(e1, fs, AnsiblePlaybookName) # Nil
                 THEN /\ env' = e1
                      /\ http' = [http EXCEPT
                                    !.workers = Move(@, w,
                                        [NoWorker EXCEPT !.pc = "send"])]
                 ELSE /\ env' = Setenv(e3, "ANSIBLE_FORCE_COLOR", ForceColor)
                      /\ http' = [http EXCEPT
                                    !.workers = Move(@, w,
                                        [w EXCEPT !.pc = "inventory",
                                                  !.payload = v.c,
                                                  !.verr = v.err])]
    /\ UNCHANGED <<pc, arg, ret, fs, c, cfgFile, err, exitCode, procs,
                   last, world, inv, run>>

\* the rest of handle: validateAnsibleInventory starts ansible-inventory
\* when it finds it, and the child inherits the environment the process has
\* at that moment
handleInventory ==
    /\ exitCode = Running
    /\ \E w \in BagToSet(http.workers) :
          LET e1 == PrependVenv(env, w.payload.VirtualEnvPath)
              ok == LookPath(e1, fs, AnsibleInventoryName) = Nil
          IN  /\ w.pc = "inventory"
              /\ env' = e1
              /\ http' = [http EXCEPT
                            !.workers = Move(@, w,
                                [NoWorker EXCEPT !.pc = "send",
                                                 !.started = ok]),
                            !.child = IF ok
                                      THEN [payload |-> w.payload,
                                            verr |-> w.verr,
                                            env |-> e1]
                                      ELSE @]
    /\ UNCHANGED <<pc, arg, ret, fs, c, cfgFile, err, exitCode, procs,
                   last, world, inv, run>>

\* mainListener receives a signal and returns: the deferred
\* close(requestChannel) runs
mainListenerReturn ==
    /\ pc = "listen"
    /\ pc' = "closing"
    /\ http' = [http EXCEPT !.closed = TRUE]
    /\ UNCHANGED <<arg, ret, fs, c, env, cfgFile, err, exitCode, procs, last,
                   world, inv, run>>

\* main: os.Exit(0) after mainListener
mainListenerExit ==
    /\ pc = "closing"
    /\ pc' = "exit"
    /\ exitCode' = 0
    /\ last' = "mainListener"
    /\ UNCHANGED <<arg, ret, fs, c, env, cfgFile, err, procs, world, inv, run,
                   http>>

InitHttp ==
    /\ pc = "listen"
    /\ arg = << >>
    /\ ret = Nil
    /\ fs = RunFs
    /\ c = NewPlaybookConfig
    /\ env \in {[n \in {"PATH"} |-> p] : p \in {BinDir, HomeDir}}
    /\ cfgFile = NoConfigFile
    /\ err = Nil
    /\ exitCode = Running
    /\ procs = << >>
    /\ last = "none"
    /\ world = NoWorld
    /\ inv = NoInv
    /\ run = NoRun
    /\ http = NoHttp

NextHttp ==
    \/ handleAnsible
    \/ process
    \/ handle
    \/ handleInventory
    \/ mainListenerReturn
    \/ mainListenerExit

SpecHttp == InitHttp /\ [][NextHttp]_vars

\* C15: Enqueue never blocks: with fewer than 5 requests pending it puts the
\* request on the queue and returns nil, with 5 pending it returns the
\* "work queue full" ExecutionError and leaves the queue as it was; the
\* queue never holds more than 5 requests.
C15_EnqueueNeverBlocks ==
    /\ Len(http.queue) <= maxPlaybookConcurrent
    /\ http.resp.called =>
          IF http.resp.pending < maxPlaybookConcurrent
          THEN /\ ~http.resp.panic
               /\ http.resp.err = Nil
          ELSE /\ ~http.resp.panic
               /\ http.resp.err = E("ExecutionError", "work queue full")

\* the number of pending requests never exceeds 5
C15_QueueBounded == Len(http.queue) <= maxPlaybookConcurrent

\* Enqueue was called with requestChannel closed and the handler panicked
C15_PanicOnClosed ==
    /\ http.resp.called
    /\ http.resp.panic
    /\ http.resp.pending < maxPlaybookConcurrent
    /\ http.closed

\* C16: every POST to /ansible gets a status: 200 when the request was put
\* on the queue, 500 when the body cannot be read, when it is not a
\* PlaybookConfig and when the queue is full.
C16_PostGetsStatus ==
    (http.resp.id # 0 /\ http.resp.method = "POST") =>
        /\ http.resp.status \in {200, 500}
        /\ http.resp.status = 200 <=>
               (http.resp.called /\ http.resp.err = Nil)

\* a POST whose body was not JSON ended the process without a status
C16_FatalOnParseError ==
    /\ http.resp.method = "POST"
    /\ http.resp.body = "notjson"
    /\ http.resp.status = 0
    /\ exitCode = 1
    /\ last = "log.Fatal"

(***************************************************************************)
(* Claims on the arguments of ansible-playbook, checked under Spec.        *)
(***************************************************************************)
\* args holds "-e" or "--extra-vars" followed by file
HasExtraVarsArg(args, file) ==
    \E j \in 1..(Len(args) - 1) :
        /\ args[j] \in {<<"-", "e">>,
                         <<"-", "-", "e", "x", "t", "r", "a", "-",
                           "v", "a", "r", "s">>}
        /\ args[j + 1] = file

\* C17: when the validated configuration names an extra-vars file, the
\* arguments that RunAnsiblePlaybook gives to ansible-playbook hold -e or
\* --extra-vars followed by the path of that file.
C17_ExtraVarsPassed ==
    \A i \in 1..Len(procs) :
        (procs[i].cmd = AnsiblePlaybookName /\ c.ExtraVarsFile # << >>)
            => HasExtraVarsArg(procs[i].args, c.ExtraVarsFile)

\* ansible-playbook ran and ended while the configuration named ./x
C17_RanWithoutExtraVars ==
    /\ pc = "exit"
    /\ c.ExtraVarsFile = ExtraVarsPath
    /\ Started(AnsiblePlaybookName)
    /\ run.child.state = "exited"

\* a subprocess has been started, by main or by a worker of the listener
SubprocessStarted ==
    \/ procs # << >>
    \/ \E w \in BagToSet(http.workers) : w.started

\* C19: on every path that starts a subprocess ProcessEnvs has run exactly
\* once, after ReadConf and ReadEnvs and before the first subprocess.
C19_ProcessEnvsOnce == SubprocessStarted => http.envsProcessed = 1

\* a worker of the listener started ansible-inventory and ProcessEnvs was
\* never called
C19_WorkerWithoutProcessEnvs ==
    /\ \E w \in BagToSet(http.workers) : w.pc = "send" /\ w.started
    /\ http.envsProcessed = 0

\* in main without the TUI ProcessEnvs ran once before the first subprocess
C19_MainOnce ==
    procs # << >> => http.envsProcessed = 1

(***************************************************************************)
(* Claims on the configuration after ProcessEnvs, checked under            *)
(* SpecProcess.                                                            *)
(***************************************************************************)
\* C20 as stated: every field of the configuration, the pass list and the
\* set map included, is after ProcessEnvs what it was before.
C20_Original == ProcessEnvsReturned => c = arg.c

\* C20: ProcessEnvs writes two fields of the configuration and no other:
\* the pass list becomes empty and the set map gains every pass-list name
\* that had a non-empty value and was not a key, with that value; the keys
\* it had keep their values.  When the set map is nil and a name is to be
\* added the write panics and the configuration is as before.
C20_ConfigAfter ==
    /\ (pc = "exit" /\ last = "panic") => c = arg.c
    /\ ProcessEnvsReturned =>
          LET old  == arg.c.Set.m
              keys == DOMAIN old \cup PassedThrough
          IN  c = [arg.c EXCEPT
                     !.Pass = << >>,
                     !.Set = [isNil |-> arg.c.Set.isNil,
                              m |-> [n \in keys |->
                                       IF n \in DOMAIN old THEN old[n]
                                       ELSE arg.env[n]]]]

\* B was passed through into the set map and the pass list was emptied
C20_Witness ==
    /\ ProcessEnvsReturned
    /\ arg.c.Pass = <<"B">>
    /\ DOMAIN arg.c.Set.m = {"A"}
    /\ c.Pass = << >>
    /\ DOMAIN c.Set.m = {"A", "B"}
    /\ c.Set.m["B"] = arg.env["B"]
    /\ c.Playbook = arg.c.Playbook

(***************************************************************************)
(* Claims on the container configuration file, checked under Spec.         *)
(***************************************************************************)
\* RunAnsiblePlaybook has called RunBufferedCommand on the container runtime
InContainerRun ==
    /\ pc \in {"rbcStart", "rbcWait", "rbcReturned", "ranPlaybook"}
    /\ run.cmd \in {Podman, Docker}

\* the configuration file of the container
ContainerConfigFile == Canon(c.TempDirPath \o ContainerConfigName)

\* C23: the file that executeCommandInContainer writes is the configuration
\* of the caller with the image emptied and a non-empty SSH key path
\* replaced by the path of the key in the container; it is written before
\* the container runtime is started, and the configuration of the caller
\* keeps its image and its SSH key path.
C23_ContainerConfig ==
    InContainerRun =>
        /\ ContainerConfigFile \in DOMAIN fs.files
        /\ fs.files[ContainerConfigFile] =
              << [c EXCEPT !.Image = << >>,
                           !.SshPrivateKeyFile =
                               IF @ # << >> THEN ContainerKeyPath ELSE @] >>
        /\ c.Image # << >>
        /\ c.SshPrivateKeyFile # ContainerKeyPath
        /\ \A i \in 1..Len(procs) : procs[i].cmd \in {Podman, Docker}

\* the container runtime was started for a configuration with an SSH key
C23_Witness ==
    /\ pc = "rbcWait"
    /\ Started(Podman)
    /\ c.Image = SomeImage
    /\ c.SshPrivateKeyFile = Abs(<<".", "/", "k">>)
    /\ fs.files[ContainerConfigFile][1].SshPrivateKeyFile = ContainerKeyPath
    /\ fs.files[ContainerConfigFile][1].Image = << >>

(***************************************************************************)
(* Claims on INVENTORY_CONTENTS and EXTRA_VARS_CONTENTS, checked under     *)
(* Spec.                                                                   *)
(***************************************************************************)
\* ValidateInputs was called on a configuration whose inventory or
\* extra-vars file is the file ReadEnvs wrote from a CONTENTS variable and
\* which passes every check once these two fields name ./i and no file
ContentsSubstituted ==
    /\ last = "ValidateInputs"
    /\ pc \in {"validated", "exit"}
    /\ \/ arg.InventoryFile = HostsInventoryPath
       \/ arg.ExtraVarsFile = ExtraVarsContentsPath
    /\ ValidateInputs([arg EXCEPT !.InventoryFile = <<".", "/", "i">>,
                                  !.ExtraVarsFile = << >>], env, fs).err = Nil

\* C24: when only the CONTENTS variable of an input is set, ReadEnvs writes
\* the value to a file and ValidateInputs accepts the path of that file as
\* inventory or as extra-vars file of an otherwise valid configuration.
C24_ContentsAccepted ==
    ContentsSubstituted =>
        /\ err = Nil
        /\ IsFile(fs, HostsInventoryPath) \/ IsFile(fs, ExtraVarsContentsPath)

\* the file written from INVENTORY_CONTENTS was accepted as inventory
C24_InventoryAccepted ==
    /\ ContentsSubstituted
    /\ arg.InventoryFile = HostsInventoryPath
    /\ fs.files[Canon(HostsInventoryPath)] = <<"h">>
    /\ err = Nil

\* the file written from EXTRA_VARS_CONTENTS exists and was refused
C24_ExtraVarsRefused ==
    /\ ContentsSubstituted
    /\ arg.ExtraVarsFile = ExtraVarsContentsPath
    /\ fs.files[Canon(ExtraVarsContentsPath)] = <<"h">>
    /\ err = E("InputError", ExtraVarsNotRelative)

(***************************************************************************)
(* Claims on the end of RunBufferedCommand.  The scheduler runs every      *)
(* goroutine and the child that can take a step, and a deadline that was   *)
(* set expires.                                                            *)
(***************************************************************************)
SpecRunLive ==
    /\ SpecRun
    /\ WF_vars(RbcChildWrite)
    /\ WF_vars(RbcChildExit)
    /\ WF_vars(RbcTimeout)
    /\ WF_vars(RbcRead)
    /\ WF_vars(RbcWait)

\* C26: RunBufferedCommand eventually returns for every child that writes
\* any amounts to stdout and stderr in any order and then exits: the
\* merged reader never leaves the child blocked on a full stderr pipe while
\* it waits for stdout to reach EOF.
C26_EventuallyReturns == (pc = "rbcWait") ~> (pc = "rbcReturned")

\* the child is blocked writing to stderr, the reader is blocked reading
\* stdout, cmd.Wait is blocked on the child and no deadline was set
C26_Blocked ==
    /\ pc = "rbcWait"
    /\ run.timeout <= 0
    /\ run.child.state = "running"
    /\ run.child.ip <= Len(world.pbScript)
    /\ world.pbScript[run.child.ip].fd = "err"
    /\ Len(run.child.errp) = PipeCap
    /\ run.reader.pc = "run"
    /\ run.from = "out"
    /\ run.child.out = << >>
    /\ ~ENABLED RbcChildWrite
    /\ ~ENABLED RbcRead
    /\ ~ENABLED RbcWait

(***************************************************************************)
(* Claims on the requests that the workers handle, checked under SpecHttp. *)
(***************************************************************************)
\* a worker has started ansible-inventory
ChildStarted == http.child # NoHttpChild

\* C25: two requests that workers of one process handle at the same time
\* are not isolated: the ansible child of a request inherits the
\* ANSIBLE_REMOTE_USER that the process environment holds when it is
\* started, which is the remote user that some request wrote there last,
\* its own or that of another request.
C25_SharedEnvironment ==
    ChildStarted =>
        /\ "ANSIBLE_REMOTE_USER" \in DOMAIN http.child.env
        /\ \E p \in Payloads :
              http.child.env["ANSIBLE_REMOTE_USER"] = p.RemoteUser
        /\ "ANSIBLE_REMOTE_USER" \in DOMAIN env

\* the child of a request with remote user a was started with the remote
\* user b of another request
C25_Witness ==
    /\ ChildStarted
    /\ http.child.payload.RemoteUser = <<"a">>
    /\ http.child.env["ANSIBLE_REMOTE_USER"] = <<"b">>

\* C29: a request whose validateInputs returns an error never reaches
\* runAnsiblePlaybook: no worker starts a subprocess for it.
C29_InvalidNotRun == ChildStarted => http.child.verr = Nil

\* ansible-inventory was started for a request without playbook
C29_SpawnedAfterError ==
    /\ ChildStarted
    /\ http.child.payload.Playbook = << >>
    /\ http.child.verr = E("InputError", "playbook is required")
    /\ \E w \in BagToSet(http.workers) : w.pc = "send" /\ w.started

(***************************************************************************)
(* Claims on the progress of the workers.  The scheduler runs every worker *)
(* that can take a step.                                                   *)
(***************************************************************************)
SpecHttpFair ==
    /\ SpecHttp
    /\ WF_vars(process)
    /\ WF_vars(handle)
    /\ WF_vars(handleInventory)

\* the number of workers at the point p of process and handle
WorkersAt(p) ==
    LET at == {w \in BagToSet(http.workers) : w.pc = p}
        RECURSIVE Sum(_)
        Sum(S) == IF S = {} THEN 0
                  ELSE LET w == CHOOSE x \in S : TRUE
                       IN  CopiesIn(w, http.workers) + Sum(S \ {w})
    IN  Sum(at)

\* C27: every request accepted by Enqueue is eventually handled to
\* completion and the worker that handled it returns to receive the next
\* request: while the process runs, a worker that has run the playbook of
\* its request gets back to the range over requestChannel, and a request on
\* the queue is received.
C27_WorkersReturn ==
    /\ (WorkersAt("send") > 0)
          ~> (WorkersAt("send") = 0 \/ exitCode # Running)
    /\ (http.queue # << >>)
          ~> (http.queue = << >> \/ exitCode # Running)

\* all 5 workers are at "outputChan <- nil" and an accepted request is on
\* the queue, with the listener running
C27_NoWorkerLeft ==
    /\ pc = "listen"
    /\ WorkersAt("send") = maxPlaybookConcurrent
    /\ http.queue # << >>
    /\ http.resp.status = 200
    /\ ~ENABLED process
    /\ ~ENABLED handle
    /\ ~ENABLED handleInventory

(***************************************************************************)
(* Claims on the return of ProcessEnvs, checked under SpecProcess.         *)
(***************************************************************************)
\* C28: ProcessEnvs returns nil without panicking for every configuration
\* and environment, a pass list that names a variable that is set while
\* the set map is nil and an empty pass list with an empty set map
\* included.
C28_ReturnsNil ==
    pc # "envsRead" =>
        /\ pc = "envsProcessed"
        /\ last = "ProcessEnvs"
        /\ exitCode = Running
        /\ err = Nil

\* the pass list names A, A is set, the set map is nil: the process ended
\* in a panic
C28_PanicOnNilSet ==
    /\ pc = "exit"
    /\ last = "panic"
    /\ exitCode = 2
    /\ arg.c.Pass = <<"A">>
    /\ arg.c.Set = NilMap
    /\ Getenv(arg.env, "A") = <<"1">>

\* ProcessEnvs returned for an empty pass list and a nil set map
C28_EmptyReturns ==
    /\ ProcessEnvsReturned
    /\ arg.c.Pass = << >>
    /\ arg.c.Set = NilMap
    /\ c.Set = NilMap

(***************************************************************************)
(* Claims on the failure of ReadEnvs, checked under SpecEnv.               *)
(***************************************************************************)
\* the files that ReadEnvs writes from INVENTORY_CONTENTS and
\* EXTRA_VARS_CONTENTS
ContentsFiles == {Canon(HostsInventoryPath), Canon(ExtraVarsContentsPath)}

\* C30: when ReadEnvs fails with a source-conflict error it has written no
\* inventory or extra-vars file and has left the inventory and extra-vars
\* fields of the configuration as they were before the call.
C30_ConflictLeavesNoTrace ==
    [][(pc = "confRead" /\ err' \in {TooManyInventory, TooManyExtraVars}) =>
          /\ c'.InventoryFile = c.InventoryFile
          /\ c'.ExtraVarsFile = c.ExtraVarsFile
          /\ \A p \in ContentsFiles :
                p \in DOMAIN fs'.files =>
                    (p \in DOMAIN fs.files /\ fs'.files[p] = fs.files[p])]_vars

\* ReadEnvs returned the inventory conflict after it had written the
\* contents and pointed the configuration, whose file names ./i, at them
C30_WrittenBeforeConflict ==
    /\ last = "ReadEnvs"
    /\ pc = "exit"
    /\ err = TooManyInventory
    /\ cfgFile = FileAll
    /\ FileAll.val.InventoryFile # HostsInventoryPath
    /\ DOMAIN env = {"INVENTORY_FILE", "INVENTORY_CONTENTS"}
    /\ c.InventoryFile = HostsInventoryPath
    /\ fs.files[Canon(HostsInventoryPath)] = env["INVENTORY_CONTENTS"]

\* ReadEnvs returned the extra-vars conflict after it had written the
\* contents of EXTRA_VARS_CONTENTS
C30_ExtraVarsWritten ==
    /\ last = "ReadEnvs"
    /\ err = TooManyExtraVars
    /\ c.ExtraVarsFile = ExtraVarsContentsPath
    /\ fs.files[Canon(ExtraVarsContentsPath)] = env["EXTRA_VARS_CONTENTS"]

=============================================================================
